---- MODULE Spec2Model ----
(***************************************************************************)
(* Verification model of the MySQL -> PostgreSQL migration pipeline        *)
(* (Enterprise-Database-Migration).  One module, several specifications:   *)
(*   SpecTopo   - DependencyAgent._topological_sort over generated graphs  *)
(***************************************************************************)
EXTENDS Integers, Sequences, FiniteSets, TLC

(* ------------------------------------------------------------------ *)
(* Bounds of the model (not program constants)                         *)
(* ------------------------------------------------------------------ *)
NumTables == 3
MaxFks == 4
MaxTables == 2
MaxProcedures == 1
MaxRejectable == 2
MaxSaveFailures == 1
DdlTables == 2
MaxRuns == 2
MaxDeployments == 2
MoverTables == 2
MaxIssues == 3
MaxPassedChecks == 1
RowTables == 2
MaxRows == 3
MaxStaleRows == 1
BatchSize == 2
MaxFailedBatch == 2
MaxPasses == 2
MaxSessionRuns == 2
MaxConvertRows == 2
MaxInvocations == 2
MaxRetriesArg == 2
\* LLMConfig: max_retries: int = 3
LlmMaxRetries == 3
MaxBatchStatements == 2

(* ------------------------------------------------------------------ *)
(* Program constants                                                   *)
(* ------------------------------------------------------------------ *)
\* should_continue_after_sandbox: max_retries = 5
MaxRetries == 5

VARIABLES
    \* --- dependency analysis (SpecTopo) ---
    tp_schema,        \* SchemaMetadata: foreign keys per table, views
    tp_pc,            \* "input" | "sorted"
    tp_nodes,         \* DependencyGraph.nodes      : sequence of node ids
    tp_edges,         \* DependencyGraph.edges      : sequence of edges
    tp_order          \* DependencyGraph.migration_order

VARIABLES
    \* --- sandbox / repair loop of the workflow (SpecFlow) ---
    pc,                    \* the workflow's position: a node, or a router about to decide
    transformed_ddl,       \* MigrationState.transformed_ddl
    converted_procedures,  \* MigrationState.converted_procedures
    migration_order,       \* MigrationState.dependency_graph.migration_order
    sandbox_results,       \* MigrationState.sandbox_results
    sandbox_retry_count,   \* MigrationState.sandbox_retry_count
    errors,                \* MigrationState.errors (the phases that recorded one)
    \* history of the run, read by the properties only
    exec_log,              \* the executions of the latest sandbox pass, in order
    last_pass,             \* did the latest pass run to its end, and what failed in it
    fixer_runs,            \* how many times the error fixer has run
    always_failed,         \* the objects that failed in every pass so far
    rejectable,            \* the objects whose statements the sandbox database may reject
    unverified             \* artifacts rewritten by the fixer and not executed since

VARIABLES
    \* --- blueprint and schema generation (SpecDDL) ---
    dd_pc,                 \* "introspected" | "blueprinted" | "transformed"
    schema_tables,         \* state.schema_metadata.tables
    blueprints,            \* the <table>.blueprint.json files, by table
    generated_ddl          \* the transformed_ddl list SchemaAgent.run builds

VARIABLES
    \* --- the UI session and the production target (SpecDeploy) ---
    migration_running,     \* st.session_state.migration_running
    migration_complete,    \* st.session_state.migration_complete
    migration_thread,      \* "none" | "alive" | "dead"
    thread_target,         \* the function the background thread runs
    run_validation,        \* how the latest migration run ended
    runs,                  \* migration runs started
    production,            \* operations performed on the production target
    deployments            \* the production deployment attempts

VARIABLES
    \* --- a data-mover run (SpecMover) ---
    mv_mover,              \* "DataMigrationAgent" | "DataMigrator"
    mv_pc,                 \* the step the run is at
    mv_tables,             \* tables still to migrate
    mv_continue_on_error,  \* run_full_migration's continue_on_error
    session_replication_role,  \* "origin" (FKs enforced) | "replica"
    mv_log,                \* the steps performed on the destination
    mv_errors              \* the errors the run recorded

VARIABLES
    \* --- validation and what follows it (SpecValid) ---
    vd_pc,                 \* the stage about to run
    vd_outcome,            \* how ValidationAgent.run ended
    vd_validation_passed,  \* state.validation_passed
    validation_results,    \* state.validation_results
    vd_errors,             \* state.errors
    stage_log,             \* the stages executed, in order
    data_moved             \* the data mover has run

VARIABLES
    \* --- rows moved and reconciled (SpecRows) ---
    rw_mover,              \* "DataMigrationAgent" | "DataMigrator"
    rw_continue_on_error,  \* run_full_migration's continue_on_error
    rw_pc,                 \* "tables" | "validate" | "done"
    rw_next,               \* position of the next table in the order
    source_rows,           \* rows of each source table
    target_initial,        \* rows of each destination table before the run
    target_rows,           \* rows of each destination table
    table_results,         \* the per-table results of the run
    row_counts             \* the reconciliation records

VARIABLES
    \* --- the sandbox database across passes (SpecReset) ---
    rs_pc,                 \* "reset" | "execute" | "after_sandbox"
    rs_pass,               \* number of the sandbox pass
    sb_objects,            \* the objects in the sandbox database
    rs_dropped,            \* the objects the reset of this pass dropped, in order
    rs_left                \* what the reset of this pass left in place

VARIABLES
    \* --- the batched artifacts in a sandbox pass (SpecBatch) ---
    bt_pc,                 \* "batches" | "done"
    bt_ddl,                \* the "_indexes" and "_deferred_fks" artifacts
    bt_rejects,            \* the statements the database rejects in any form
    bt_attempted,          \* the statements the database was given
    bt_applied,            \* the statements in place in the sandbox
    bt_results             \* the sandbox results recorded

VARIABLES
    \* --- the table list of a data-mover run (SpecOrder) ---
    od_mover,              \* "DataMigrationAgent" | "DataMigrator"
    od_pc,                 \* "idle" | "start" | "tables" | "done"
    od_graph,              \* the dependency graph handed to the mover, if any
    od_source_tables,      \* the source's table names, in introspection order
    od_table_list,         \* the mover's table list
    od_processed           \* the names the table loop was run for, in order

VARIABLES
    \* --- a whole run of the workflow, stage by stage (SpecPipeline) ---
    pl_pc,                 \* the node about to run, "END", or "aborted"
    pl_schema_metadata,    \* state.schema_metadata is set
    pl_errors,             \* state.errors
    pl_ops,                \* operations performed on the sandbox database
    pl_retry_count,        \* state.sandbox_retry_count
    pl_failures,           \* state.sandbox_results holds a failed result
    pl_validation_passed,  \* state.validation_passed
    pl_reports,            \* how often the reporting stage ran
    pl_raised,             \* the stages an exception was raised in
    pl_overall_status      \* state.overall_status

VARIABLES
    \* --- runs started from several entry points (SpecSessions) ---
    ss_migration_running,  \* per UI session: st.session_state.migration_running
    ss_stage,              \* per entry point: where its workflow run is
    ss_runs                \* per entry point: how many runs it has started

VARIABLES
    \* --- the per-column transform of one batch of rows (SpecConvert) ---
    cv_mover,    \* "DataMigrationAgent" or "DataMigrator"
    cv_pc,       \* "idle", "fetched", "inserted" or "failed"
    cv_column,   \* the column of the batch: table, name and source type
    cv_rows,     \* the column's values in the batch fetched from the source
    cv_params    \* the column's values handed to the INSERT

VARIABLES
    \* --- the API key manager and one agent's LLM calls (SpecKeys) ---
    api_keys,       \* APIKeyManager.keys
    current_index,  \* APIKeyManager.current_index (0-based)
    failed_keys,    \* APIKeyManager.failed_keys
    km_returned,    \* what the last rotate_key since a reset returned
    llm_key,        \* the key the agent's ChatGroq was created with
    iw_pc,          \* "idle", "loop", "returned" or "raised"
    max_retries,    \* invoke_with_retry: max_retries after the default
    iw_attempt,     \* invoke_with_retry: attempt
    iw_calls,       \* calls of self.invoke in this invocation
    iw_rotations,   \* rotations that succeeded in this invocation
    last_error,     \* invoke_with_retry: last_error, by kind
    iw_runs         \* invocations so far

topoVars == <<tp_schema, tp_pc, tp_nodes, tp_edges, tp_order>>
flowVars == <<pc, transformed_ddl, converted_procedures, migration_order,
              sandbox_results, sandbox_retry_count, errors,
              exec_log, last_pass, fixer_runs, always_failed, rejectable,
              unverified>>
ddlVars == <<dd_pc, schema_tables, blueprints, generated_ddl>>
deployVars == <<migration_running, migration_complete, migration_thread, thread_target,
                run_validation, runs, production, deployments>>
moverVars == <<mv_mover, mv_pc, mv_tables, mv_continue_on_error,
               session_replication_role, mv_log, mv_errors>>
validVars == <<vd_pc, vd_outcome, vd_validation_passed, validation_results, vd_errors,
               stage_log, data_moved>>
rowVars == <<rw_mover, rw_continue_on_error, rw_pc, rw_next, source_rows, target_initial,
             target_rows, table_results, row_counts>>
resetVars == <<rs_pc, rs_pass, sb_objects, rs_dropped, rs_left>>
batchVars == <<bt_pc, bt_ddl, bt_rejects, bt_attempted, bt_applied, bt_results>>
orderVars == <<od_mover, od_pc, od_graph, od_source_tables, od_table_list, od_processed>>
pipelineVars == <<pl_pc, pl_schema_metadata, pl_errors, pl_ops, pl_retry_count, pl_failures, pl_validation_passed, pl_reports, pl_raised, pl_overall_status>>
sessionVars == <<ss_migration_running, ss_stage, ss_runs>>
convertVars == <<cv_mover, cv_pc, cv_column, cv_rows, cv_params>>
keyVars == <<api_keys, current_index, failed_keys, km_returned, llm_key, iw_pc, max_retries, iw_attempt, iw_calls, iw_rotations, last_error, iw_runs>>
vars == <<topoVars, flowVars, ddlVars, deployVars, moverVars, validVars, rowVars, resetVars, batchVars, orderVars, pipelineVars, sessionVars, convertVars, keyVars>>

(* ------------------------------------------------------------------ *)
(* Generic sequence helpers                                            *)
(* ------------------------------------------------------------------ *)
Range(s) == {s[i] : i \in DOMAIN s}

IndexOf(s, x) == CHOOSE i \in DOMAIN s : s[i] = x /\ \A j \in 1..(i-1) : s[j] # x

RECURSIVE Dedup(_)
\* dict keys built from a list: first occurrence order, later duplicates collapse
Dedup(s) ==
    IF s = <<>> THEN <<>>
    ELSE LET r == Dedup(SubSeq(s, 1, Len(s) - 1))
             x == s[Len(s)]
         IN IF x \in Range(r) THEN r ELSE Append(r, x)

RECURSIVE SortedSeq(_)
\* the elements of a finite set of integers in increasing order
SortedSeq(S) ==
    IF S = {} THEN <<>>
    ELSE LET m == CHOOSE x \in S : \A y \in S : x <= y
         IN <<m>> \o SortedSeq(S \ {m})

RECURSIVE Flatten(_)
Flatten(ss) == IF ss = <<>> THEN <<>> ELSE Head(ss) \o Flatten(Tail(ss))

(* ------------------------------------------------------------------ *)
(* DependencyAgent                                                     *)
(* ------------------------------------------------------------------ *)
TableIds == 1..NumTables

TableNode(t) == <<"table", t>>
ViewNode(v) == <<"view", v>>
ProcedureNode(p) == <<"procedure", p>>

DependencyEdge(f, t, ty) == [from_id |-> f, to_id |-> t, edge_type |-> ty]

\* graph[to_id].append(from_id) for every edge with both ends known, in edge order
Dependents(keys, edges, n) ==
    LET ok(e) == e.from_id \in Range(keys) /\ e.to_id \in Range(keys) /\ e.to_id = n
        sel == SelectSeq(edges, ok)
    IN [i \in DOMAIN sel |-> sel[i].from_id]

\* in_degree[from_id] += 1 for every edge with both ends known
InDegree(keys, edges) ==
    [n \in Range(keys) |->
        LET ok(e) == e.from_id \in Range(keys) /\ e.to_id \in Range(keys) /\ e.from_id = n
        IN Len(SelectSeq(edges, ok))]

RECURSIVE Relax(_, _, _)
\* for dependent in graph[node_id]: in_degree[dependent] -= 1; enqueue at zero
Relax(deps, queue, indeg) ==
    IF deps = <<>> THEN [queue |-> queue, indeg |-> indeg]
    ELSE LET d == Head(deps)
             nd == [indeg EXCEPT ![d] = @ - 1]
             nq == IF nd[d] = 0 THEN Append(queue, d) ELSE queue
         IN Relax(Tail(deps), nq, nd)

RECURSIVE Kahn(_, _, _, _, _)
\* while queue: node_id = queue.pop(0); result.append(node_id); relax dependents
Kahn(keys, edges, queue, result, indeg) ==
    IF queue = <<>> THEN result
    ELSE LET n == Head(queue)
             r == Relax(Dependents(keys, edges, n), Tail(queue), indeg)
         IN Kahn(keys, edges, r.queue, Append(result, n), r.indeg)

\* a sort that returns what the queue loop produced and nothing more
TopologicalSort_QueueOnly(nodes, edges) ==
    LET keys == Dedup(nodes)
        indeg == InDegree(keys, edges)
        zero(n) == indeg[n] = 0
    IN Kahn(keys, edges, SelectSeq(keys, zero), <<>>, indeg)

\* DependencyAgent._topological_sort(nodes, edges)
TopologicalSort(nodes, edges) ==
    LET keys == Dedup(nodes)
        indeg == InDegree(keys, edges)
        zero(n) == indeg[n] = 0
        queue == SelectSeq(keys, zero)
        result == Kahn(keys, edges, queue, <<>>, indeg)
        rest(n) == n \notin Range(result)
        remaining == SelectSeq(keys, rest)
    IN result \o remaining

\* table.foreign_keys of a source table: the referred tables, in introspection
\* order; a table may hold two foreign keys to the same table
ForeignKeysOf(R, dbl, t) ==
    LET tg == SortedSeq({p[2] : p \in {q \in R : q[1] = t}})
    IN Flatten([i \in DOMAIN tg |->
                  IF <<t, tg[i]>> = dbl THEN <<tg[i], tg[i]>> ELSE <<tg[i]>>])

NoPair == <<0, 0>>

\* a table of another database, which the first table may reference
ForeignTable == NumTables + 1

\* the schemas the introspector can hand over, within the bounds: foreign keys
\* among the tables and possibly one to a table outside the schema, at most
\* one view, and no routine or a procedure and a function of one name
TopoSchemas ==
    { [fks |-> [t \in TableIds |-> ForeignKeysOf(R, dbl, t)], view_refs |-> vr,
       routines |-> rt] :
        R \in {X \in SUBSET ((TableIds \X TableIds) \cup {<<1, ForeignTable>>}) :
                  Cardinality(X) <= MaxFks},
        dbl \in (TableIds \X TableIds) \cup {NoPair},
        vr \in {<<>>} \cup {<<S>> : S \in SUBSET TableIds},
        rt \in {<<>>, <<"procedure", "function">>} }

\* DependencyAgent.run: nodes for every table, view and routine; the id of a
\* routine is "procedure:<name>" whatever its type
GraphNodes(schema) ==
    [t \in TableIds |-> TableNode(t)]
      \o [v \in DOMAIN schema.view_refs |-> ViewNode(v)]
      \o [r \in DOMAIN schema.routines |-> ProcedureNode(1)]

\* DependencyAgent.run: a foreign_key edge per FK, a reference edge per table
\* named in a view definition
GraphEdges(schema) ==
    Flatten([t \in TableIds |->
               [k \in DOMAIN schema.fks[t] |->
                  DependencyEdge(TableNode(t), TableNode(schema.fks[t][k]), "foreign_key")]])
      \o Flatten([v \in DOMAIN schema.view_refs |->
               LET ts == SortedSeq(schema.view_refs[v])
               IN [k \in DOMAIN ts |->
                     DependencyEdge(ViewNode(v), TableNode(ts[k]), "reference")]])

\* the workflow is not running
FlowIdle ==
    /\ pc = "idle"
    /\ transformed_ddl = <<>>
    /\ converted_procedures = <<>>
    /\ migration_order = <<>>
    /\ sandbox_results = <<>>
    /\ sandbox_retry_count = 0
    /\ errors = <<>>
    /\ exec_log = <<>>
    /\ last_pass = [complete |-> FALSE, failures |-> 0]
    /\ fixer_runs = 0
    /\ always_failed = {}
    /\ rejectable = {}
    /\ unverified = {}

\* the UI session is fresh and production untouched
DeployIdle ==
    /\ migration_running = FALSE
    /\ migration_complete = FALSE
    /\ migration_thread = "none"
    /\ thread_target = "none"
    /\ run_validation = "none"
    /\ runs = 0
    /\ production = <<>>
    /\ deployments = <<>>

\* no data mover is running
MoverIdle ==
    /\ mv_mover = "none"
    /\ mv_pc = "idle"
    /\ mv_tables = 0
    /\ mv_continue_on_error = TRUE
    /\ session_replication_role = "origin"
    /\ mv_log = <<>>
    /\ mv_errors = <<>>

\* no validation has run
ValidIdle ==
    /\ vd_pc = "idle"
    /\ vd_outcome = "none"
    /\ vd_validation_passed = FALSE
    /\ validation_results = <<>>
    /\ vd_errors = <<>>
    /\ stage_log = <<>>
    /\ data_moved = FALSE

\* no rows are being moved
RowIdle ==
    /\ rw_mover = "none"
    /\ rw_continue_on_error = TRUE
    /\ rw_pc = "idle"
    /\ rw_next = 0
    /\ source_rows = <<>>
    /\ target_initial = <<>>
    /\ target_rows = <<>>
    /\ table_results = <<>>
    /\ row_counts = <<>>

\* no sandbox pass is under way
ResetIdle ==
    /\ rs_pc = "idle"
    /\ rs_pass = 0
    /\ sb_objects = {}
    /\ rs_dropped = <<>>
    /\ rs_left = {}

\* no batch is being executed
BatchIdle ==
    /\ bt_pc = "idle"
    /\ bt_ddl = <<>>
    /\ bt_rejects = {}
    /\ bt_attempted = {}
    /\ bt_applied = {}
    /\ bt_results = <<>>

\* no table list is being determined
OrderIdle ==
    /\ od_mover = "none"
    /\ od_pc = "idle"
    /\ od_graph = [present |-> FALSE, migration_order |-> <<>>]
    /\ od_source_tables = <<>>
    /\ od_table_list = <<>>
    /\ od_processed = <<>>

\* no run of the whole workflow is under way
PipelineIdle ==
    /\ pl_pc = "idle"
    /\ pl_schema_metadata = FALSE
    /\ pl_errors = <<>>
    /\ pl_ops = <<>>
    /\ pl_retry_count = 0
    /\ pl_failures = FALSE
    /\ pl_validation_passed = FALSE
    /\ pl_reports = 0
    /\ pl_raised = {}
    /\ pl_overall_status = "pending"

\* browser sessions of the Streamlit app; each has its own st.session_state
UiSessions == {"ui_session_1", "ui_session_2"}

\* the ways a run of the workflow is started: a UI session's Start button or
\* the command line
EntryPoints == UiSessions \cup {"cli"}

\* no entry point has started a run
SessionsIdle ==
    /\ ss_migration_running = [s \in UiSessions |-> FALSE]
    /\ ss_stage = [e \in EntryPoints |-> "none"]
    /\ ss_runs = [e \in EntryPoints |-> 0]

\* no batch is being transformed
ConvertIdle ==
    /\ cv_mover = "none"
    /\ cv_pc = "idle"
    /\ cv_column = [table |-> "", name |-> "", type |-> <<>>]
    /\ cv_rows = <<>>
    /\ cv_params = <<>>

\* no key manager is loaded
KeysIdle ==
    /\ api_keys = <<>>
    /\ current_index = 0
    /\ failed_keys = {}
    /\ km_returned = "none"
    /\ llm_key = "none"
    /\ iw_pc = "idle"
    /\ max_retries = 0
    /\ iw_attempt = 0
    /\ iw_calls = 0
    /\ iw_rotations = 0
    /\ last_error = "none"
    /\ iw_runs = 0

\* no schema is being transformed
DdlIdle ==
    /\ dd_pc = "idle"
    /\ schema_tables = <<>>
    /\ blueprints = <<>>
    /\ generated_ddl = <<>>

InitTopo ==
    /\ FlowIdle
    /\ DdlIdle
    /\ DeployIdle
    /\ MoverIdle
    /\ ValidIdle
    /\ RowIdle
    /\ ResetIdle
    /\ BatchIdle
    /\ OrderIdle
    /\ PipelineIdle
    /\ SessionsIdle
    /\ ConvertIdle
    /\ KeysIdle
    /\ tp_schema \in TopoSchemas
    /\ tp_pc = "input"
    /\ tp_nodes = <<>>
    /\ tp_edges = <<>>
    /\ tp_order = <<>>

\* DependencyAgent.run (the try block: build, sort, store)
DependencyRun ==
    /\ tp_pc = "input"
    /\ tp_nodes' = GraphNodes(tp_schema)
    /\ tp_edges' = GraphEdges(tp_schema)
    /\ tp_order' = TopologicalSort(GraphNodes(tp_schema), GraphEdges(tp_schema))
    /\ tp_pc' = "sorted"
    /\ UNCHANGED <<tp_schema, flowVars, ddlVars, deployVars, moverVars, validVars, rowVars, resetVars, batchVars, orderVars, pipelineVars, sessionVars, convertVars, keyVars>>

NextTopo == DependencyRun

SpecTopo == InitTopo /\ [][NextTopo]_vars

(* ------------------------------------------------------------------ *)
(* C4                                                                  *)
(* ------------------------------------------------------------------ *)
FkEdge(a, b) ==
    \E i \in DOMAIN tp_edges :
        tp_edges[i] = DependencyEdge(TableNode(a), TableNode(b), "foreign_key")

\* C4: for every foreign_key edge A->B of the generated graph that is not part
\* of a circular pair (B->A is no edge; a self-reference A->A is left aside),
\* B precedes A in the migration order.
C4_TopologicalOrderValidity ==
    tp_pc = "sorted" =>
        \A a, b \in TableIds :
            (a # b /\ FkEdge(a, b) /\ ~FkEdge(b, a)) =>
                IndexOf(tp_order, TableNode(b)) < IndexOf(tp_order, TableNode(a))

(* ------------------------------------------------------------------ *)
(* C20                                                                 *)
(* ------------------------------------------------------------------ *)
\* the edges between nodes of the graph, as pairs <<from_id, to_id>>
KnownEdgePairs ==
    {<<tp_edges[i].from_id, tp_edges[i].to_id>> : i \in DOMAIN tp_edges}
      \cap (Range(tp_nodes) \X Range(tp_nodes))

RECURSIVE PathsWithin(_, _)
\* the pairs joined by a path of at most k + 1 edges of E
PathsWithin(E, k) ==
    IF k = 0 THEN E
    ELSE LET P == PathsWithin(E, k - 1)
         IN P \cup {<<pq[1][1], pq[2][2]>> :
                      pq \in {x \in P \X E : x[1][2] = x[2][1]}}

\* the nodes that depend, directly or not, on a node of a cycle (or are one):
\* their in-degree never reaches zero
NeverReady ==
    LET paths == PathsWithin(KnownEdgePairs, Len(tp_nodes))
        cyclic == {m \in Range(tp_nodes) : <<m, m>> \in paths}
    IN cyclic \cup {n \in Range(tp_nodes) : \E m \in cyclic : <<n, m>> \in paths}

\* C20: the sort has a result for the graph of every schema, and the migration
\* order the dependency stage stores holds every node id of the graph exactly
\* once, the nodes whose in-degree never reaches zero after all the others.
C20_TopologicalSortTotal ==
    /\ tp_pc = "input" =>
          Len(TopologicalSort(GraphNodes(tp_schema), GraphEdges(tp_schema)))
             = Cardinality(Range(GraphNodes(tp_schema)))
    /\ tp_pc = "sorted" =>
          /\ Range(tp_order) = Range(tp_nodes)
          /\ Len(tp_order) = Cardinality(Range(tp_nodes))
          /\ LET never_ready == NeverReady
             IN \A i \in DOMAIN tp_order : \A j \in DOMAIN tp_order :
                   (tp_order[i] \in never_ready /\ tp_order[j] \notin never_ready)
                      => j < i

\* a graph with a circular pair, a self-referencing table, a doubled edge, an
\* edge to a table that is no node and a node id listed twice was sorted
C20_Witness ==
    /\ tp_pc = "sorted"
    /\ \E a \in TableIds : \E b \in TableIds : a # b /\ FkEdge(a, b) /\ FkEdge(b, a)
    /\ \E a \in TableIds : FkEdge(a, a)
    /\ \E i \in DOMAIN tp_edges : \E j \in DOMAIN tp_edges :
          i # j /\ tp_edges[i] = tp_edges[j]
    /\ \E i \in DOMAIN tp_edges : tp_edges[i].to_id \notin Range(tp_nodes)
    /\ Len(tp_nodes) > Cardinality(Range(tp_nodes))
    /\ Range(tp_nodes) \ NeverReady # {}

(* ================================================================== *)
(* The sandbox / repair loop (SpecFlow)                                *)
(* ================================================================== *)

\* A statement's text, as far as the code looks into it: does it carry a
\* "sakila." schema prefix and nothing else the fixes look for ("prefixed"),
\* does it carry MySQL syntax - UNSIGNED, backticks, ENGINE= - with or without
\* the prefix ("mysql"), or neither ("clean").
Texts == {"mysql", "prefixed", "clean"}

TransformedDDL(name, type, text) ==
    [object_name |-> name, object_type |-> type, target_ddl |-> text, status |-> "pending"]

ConvertedProcedure(name, type, text) ==
    [name |-> name, procedure_type |-> type, target_code |-> text, status |-> "pending"]

SandboxResult(name, type, executed, retries) ==
    [object_name |-> name, object_type |-> type, executed |-> executed, retry_count |-> retries]

\* SandboxAgent._fix_view_schema_references: re.sub(r'\bsakila\.(\w+)', r'\1', ddl)
FixViewSchemaReferences(text) == IF text = "prefixed" THEN "clean" ELSE text

\* SandboxAgent._attempt_fix: strips the prefix, UNSIGNED, backticks and ENGINE
AttemptFix(text) == "clean"

\* SandboxAgent._simple_dependency_sort: priority_order
priority_order ==
    << "actor", "category", "country", "language", "film_text",
       "city",
       "address", "film",
       "customer", "staff", "store", "film_actor", "film_category", "inventory",
       "rental",
       "payment" >>

\* get_priority: the index in priority_order, 999 for an unknown table
GetPriority(name) ==
    IF name \in Range(priority_order) THEN IndexOf(priority_order, name) - 1 ELSE 999

RECURSIVE InsertByPriority(_, _, _)
InsertByPriority(ddls, sorted, k) ==
    IF sorted = <<>> THEN <<k>>
    ELSE IF GetPriority(ddls[Head(sorted)].object_name) <= GetPriority(ddls[k].object_name)
         THEN <<Head(sorted)>> \o InsertByPriority(ddls, Tail(sorted), k)
         ELSE <<k>> \o sorted

RECURSIVE SimpleDependencySort(_, _)
\* sorted(tables, key=get_priority): a stable sort.  Artifacts are named by
\* their position in transformed_ddl.
SimpleDependencySort(ddls, tables) ==
    IF tables = <<>> THEN <<>>
    ELSE InsertByPriority(ddls,
                          SimpleDependencySort(ddls, SubSeq(tables, 1, Len(tables) - 1)),
                          tables[Len(tables)])

\* SandboxAgent._sort_by_dependency
SortByDependency(ddls, tables, dependency_order) ==
    IF dependency_order = <<>> THEN SimpleDependencySort(ddls, tables)
    ELSE LET named(id) == /\ id[1] = "table"
                          /\ \E k \in Range(tables) : ddls[k].object_name = id[2]
             hits == SelectSeq(dependency_order, named)
             ordered == [i \in DOMAIN hits |->
                           CHOOSE k \in Range(tables) : ddls[k].object_name = hits[i][2]]
             rest(k) == k \notin Range(ordered)
         IN ordered \o SelectSeq(tables, rest)

\* [d for d in state.transformed_ddl if d.object_type == type], as positions
OfType(ddls, type) ==
    LET is(k) == ddls[k].object_type = type
    IN SelectSeq([k \in DOMAIN ddls |-> k], is)

\* a pass that runs the loops in the order SchemaAgent.run appended the artifacts
ExecutionClasses_AsAppended == <<"table", "view", "constraint", "index">>

\* SandboxAgent.run: the classes of DDL in the order their loops run
ExecutionClasses == <<"table", "index", "constraint", "view">>

\* SandboxAgent.run: the DDL artifacts in the order the pass executes them
ExecutionPlan(ddls, dependency_order) ==
    Flatten([c \in DOMAIN ExecutionClasses |->
               IF ExecutionClasses[c] = "table"
               THEN SortByDependency(ddls, OfType(ddls, "table"), dependency_order)
               ELSE OfType(ddls, ExecutionClasses[c])])

\* What the sandbox database answers to one artifact: its statement executes
\* ("ok"), fails and so does any retry ("fail"), or fails and the retried,
\* fixed statement executes ("retry_ok").
Outcomes == {"ok", "fail", "retry_ok"}

ObjKey(r) == <<r.object_name, r.object_type>>

\* the database's answer for one object; it accepts what it is not asked to reject
OutcomeOf(outs, key) == IF key \in DOMAIN outs THEN outs[key] ELSE "ok"

\* SandboxAgent._execute_and_record
ExecuteAndRecord(ddl, out) ==
    IF out = "ok"
    THEN [ddl |-> [ddl EXCEPT !.status = "success"],
          result |-> SandboxResult(ddl.object_name, ddl.object_type, TRUE, 0)]
    ELSE LET fixed_ddl == AttemptFix(ddl.target_ddl)
         IN IF fixed_ddl # ddl.target_ddl
            THEN IF out = "retry_ok"
                 THEN [ddl |-> [ddl EXCEPT !.target_ddl = fixed_ddl, !.status = "success"],
                       result |-> SandboxResult(ddl.object_name, ddl.object_type, TRUE, 1)]
                 ELSE [ddl |-> [ddl EXCEPT !.status = "failed"],
                       result |-> SandboxResult(ddl.object_name, ddl.object_type, FALSE, 1)]
            ELSE [ddl |-> [ddl EXCEPT !.status = "failed"],
                  result |-> SandboxResult(ddl.object_name, ddl.object_type, FALSE, 0)]

RECURSIVE ExecuteDDL(_, _, _, _)
\* SandboxAgent.run, steps 1-4: the loops over tables, indexes, deferred FKs
\* and views; a view's text is rewritten before it is executed
ExecuteDDL(plan, ddls, results, outs) ==
    IF plan = <<>> THEN [ddls |-> ddls, results |-> results]
    ELSE LET k == Head(plan)
             ddl == IF ddls[k].object_type = "view"
                    THEN [ddls[k] EXCEPT !.target_ddl = FixViewSchemaReferences(@)]
                    ELSE ddls[k]
             r == ExecuteAndRecord(ddl, OutcomeOf(outs, ObjKey(ddl)))
         IN ExecuteDDL(Tail(plan), [ddls EXCEPT ![k] = r.ddl],
                       Append(results, r.result), outs)

RECURSIVE ExecuteProcedures(_, _, _, _)
\* SandboxAgent.run, the loop over state.converted_procedures: executed as
\* they are, no fix and no retry
ExecuteProcedures(procs, k, results, outs) ==
    IF k > Len(procs) THEN [procs |-> procs, results |-> results]
    ELSE LET success == OutcomeOf(outs, <<procs[k].name, procs[k].procedure_type>>) = "ok"
             proc == [procs[k] EXCEPT !.status = IF success THEN "success" ELSE "failed"]
         IN ExecuteProcedures([procs EXCEPT ![k] = proc], k + 1,
                Append(results,
                       SandboxResult(proc.name, proc.procedure_type, success, 0)),
                outs)

\* [r for r in sandbox_results if not r.executed]
FailedResults(results) ==
    LET failed(r) == ~r.executed IN SelectSeq(results, failed)

\* the artifacts a run can reach the sandbox with: SchemaAgent.run appends the
\* tables, then the views, then the "_deferred_fks" batch, then the "_indexes"
\* batch; LogicAgent.run fills converted_procedures
TableNames == <<"city", "country", "address", "film", "store">>
ProcedureNames == <<"rewards_report", "film_in_stock", "get_customer_balance">>

RECURSIVE Reverse(_)
Reverse(s) == IF s = <<>> THEN <<>> ELSE Append(Reverse(Tail(s)), Head(s))

\* the runs considered: how many tables, whether the schema also has a view,
\* foreign keys, indexes and procedures, whether the dependency agent produced
\* a migration order, how many of the objects the database may reject, and
\* whether a stored procedure bears the name of a table (MySQL keeps routines
\* and tables in separate namespaces)
FlowShapes ==
    { [nt |-> 0, extras |-> FALSE, graph |-> FALSE, rejects |-> 0, shared |-> FALSE],
      [nt |-> MaxTables, extras |-> FALSE, graph |-> FALSE, rejects |-> MaxRejectable,
       shared |-> FALSE],
      [nt |-> MaxTables, extras |-> FALSE, graph |-> TRUE, rejects |-> MaxRejectable,
       shared |-> FALSE],
      [nt |-> MaxTables, extras |-> TRUE, graph |-> TRUE, rejects |-> MaxRejectable - 1,
       shared |-> FALSE],
      [nt |-> MaxTables, extras |-> TRUE, graph |-> TRUE, rejects |-> MaxRejectable - 1,
       shared |-> TRUE] }

\* what SchemaAgent.run and LogicAgent.run hand over for a shape: their LLM
\* leaves MySQL syntax in a table, a schema prefix in a view
FlowInput(sh) ==
    [ddl |-> [i \in 1..sh.nt |-> TransformedDDL(TableNames[i], "table", "mysql")]
               \o (IF sh.extras
                     THEN <<TransformedDDL("customer_list", "view", "prefixed"),
                            TransformedDDL("_deferred_fks", "constraint", "clean"),
                            TransformedDDL("_indexes", "index", "clean")>>
                     ELSE <<>>),
     procs |-> IF sh.extras
                 THEN [i \in 1..MaxProcedures |->
                         ConvertedProcedure(IF sh.shared /\ i = 1 THEN TableNames[1]
                                                                    ELSE ProcedureNames[i],
                                            "procedure", "clean")]
                 ELSE <<>>,
     order |-> IF sh.graph
                 THEN Reverse([i \in 1..sh.nt |-> <<"table", TableNames[i]>>])
                        \o (IF sh.extras THEN << <<"view", "customer_list">> >> ELSE <<>>)
                 ELSE <<>>]

\* no dependency analysis is running
TopoIdle ==
    /\ tp_schema = [fks |-> [t \in TableIds |-> <<>>], view_refs |-> <<>>,
                    routines |-> <<>>]
    /\ tp_pc = "idle"
    /\ tp_nodes = <<>>
    /\ tp_edges = <<>>
    /\ tp_order = <<>>

InitFlow ==
    /\ TopoIdle
    /\ DdlIdle
    /\ DeployIdle
    /\ MoverIdle
    /\ ValidIdle
    /\ RowIdle
    /\ ResetIdle
    /\ BatchIdle
    /\ OrderIdle
    /\ PipelineIdle
    /\ SessionsIdle
    /\ ConvertIdle
    /\ KeysIdle
    /\ \E sh \in FlowShapes : LET in == FlowInput(sh) IN
        /\ transformed_ddl = in.ddl
        /\ converted_procedures = in.procs
        /\ migration_order = in.order
        /\ LET keys == {ObjKey(in.ddl[k]) : k \in DOMAIN in.ddl}
                          \cup {<<in.procs[k].name, in.procs[k].procedure_type>> :
                                  k \in DOMAIN in.procs}
           IN /\ always_failed = keys
              /\ rejectable \in {R \in SUBSET keys : Cardinality(R) <= sh.rejects}
    /\ pc = "sandbox"
    /\ sandbox_results = <<>>
    /\ sandbox_retry_count = 0
    /\ errors = <<>>
    /\ exec_log = <<>>
    /\ last_pass = [complete |-> FALSE, failures |-> 0]
    /\ fixer_runs = 0
    /\ unverified = {}

\* sandbox_node / SandboxAgent.run.  The database answers each execution; the
\* write of sandbox_results.json either succeeds or raises, and a raise is
\* caught by the handler, which records an error and leaves
\* state.sandbox_results as it was.
SandboxNode ==
    /\ pc = "sandbox"
    /\ \E outs \in [rejectable -> Outcomes],
          saved \in IF Len(errors) < MaxSaveFailures THEN BOOLEAN ELSE {TRUE} :
        LET plan == ExecutionPlan(transformed_ddl, migration_order)
            d == ExecuteDDL(plan, transformed_ddl, <<>>, outs)
            p == ExecuteProcedures(converted_procedures, 1, d.results, outs)
            failures == {ObjKey(r) : r \in Range(FailedResults(p.results))}
        IN /\ transformed_ddl' = d.ddls
           /\ converted_procedures' = p.procs
           /\ sandbox_results' = IF saved THEN p.results ELSE sandbox_results
           /\ errors' = IF saved THEN errors ELSE Append(errors, "sandbox_testing")
           /\ exec_log' = [i \in DOMAIN p.results |-> ObjKey(p.results[i])]
           /\ last_pass' = [complete |-> saved, failures |-> Cardinality(failures)]
           /\ always_failed' = always_failed \cap failures
           /\ unverified' = unverified
                              \ ({<<"ddl", k>> : k \in Range(plan)}
                                   \cup {<<"proc", k>> : k \in DOMAIN converted_procedures})
    /\ pc' = "after_sandbox"
    /\ UNCHANGED <<migration_order, sandbox_retry_count, fixer_runs, rejectable,
                   topoVars, ddlVars, deployVars, moverVars, validVars, rowVars, resetVars, batchVars, orderVars, pipelineVars, sessionVars, convertVars, keyVars>>

\* should_continue_after_sandbox
ShouldContinueAfterSandbox(results, retry_count) ==
    LET failures == FailedResults(results)
    IN IF failures # <<>> /\ retry_count < MaxRetries THEN "error_fixer" ELSE "validation"

\* the conditional edge out of "sandbox"
RouteAfterSandbox ==
    /\ pc = "after_sandbox"
    /\ pc' = ShouldContinueAfterSandbox(sandbox_results, sandbox_retry_count)
    /\ UNCHANGED <<transformed_ddl, converted_procedures, migration_order, sandbox_results,
                   sandbox_retry_count, errors, exec_log, last_pass, fixer_runs,
                   always_failed, rejectable, unverified, topoVars, ddlVars, deployVars, moverVars, validVars, rowVars, resetVars, batchVars, orderVars, pipelineVars, sessionVars, convertVars, keyVars>>

\* ErrorFixerAgent._fix_error_with_context: the statement the fix is for is the
\* first transformed_ddl entry of that name, else the first procedure of that name
FindOriginal(ddls, procs, name) ==
    IF \E k \in DOMAIN ddls : ddls[k].object_name = name
    THEN <<"ddl", CHOOSE k \in DOMAIN ddls :
                     /\ ddls[k].object_name = name
                     /\ \A j \in 1..(k - 1) : ddls[j].object_name # name>>
    ELSE IF \E k \in DOMAIN procs : procs[k].name = name
         THEN <<"proc", CHOOSE k \in DOMAIN procs :
                           /\ procs[k].name = name
                           /\ \A j \in 1..(k - 1) : procs[j].name # name>>
         ELSE <<"none", 0>>

\* what the LLM call gives: an exception, or a statement (after _clean_sql)
\* that reads like the original as far as the fixes look, reworded or not
LLMResponses ==
    [ok : {TRUE}, text : {"clean", "mysql"}, reworded : {FALSE}]
      \cup {[ok |-> TRUE, text |-> "clean", reworded |-> TRUE],
            [ok |-> FALSE, text |-> "clean", reworded |-> FALSE]}

RECURSIVE FixErrors(_, _, _, _, _)
\* ErrorFixerAgent.run: the loop over failed_results
FixErrors(failed_results, responses, ddls, procs, rewritten) ==
    IF failed_results = <<>> THEN [ddls |-> ddls, procs |-> procs, rewritten |-> rewritten]
    ELSE LET result == Head(failed_results)
             obj == FindOriginal(ddls, procs, result.object_name)
             response == Head(responses)
             original_ddl == IF obj[1] = "ddl" THEN ddls[obj[2]].target_ddl
                             ELSE procs[obj[2]].target_code
             changed == /\ obj[1] # "none"
                        /\ response.ok
                        /\ (response.reworded \/ response.text # original_ddl)
         IN FixErrors(Tail(failed_results), Tail(responses),
                IF changed /\ obj[1] = "ddl"
                  THEN [ddls EXCEPT ![obj[2]].target_ddl =
                                      IF response.reworded THEN @ ELSE response.text]
                  ELSE ddls,
                IF changed /\ obj[1] = "proc"
                  THEN [procs EXCEPT ![obj[2]].target_code =
                                       IF response.reworded THEN @ ELSE response.text]
                  ELSE procs,
                IF changed THEN rewritten \cup {obj} ELSE rewritten)

\* a counter that advances by one per failed object
RetryCount_PerFailedObject == sandbox_retry_count + Len(FailedResults(sandbox_results))

\* ErrorFixerAgent.run: state.sandbox_retry_count = state.sandbox_retry_count + 1
RetryCountAfterFixer == sandbox_retry_count + 1

\* an edge from the fixer straight to the routing decision
AfterErrorFixer_ToRouter == "after_sandbox"

\* add_edge("error_fixer", "sandbox")
AfterErrorFixer == "sandbox"

\* error_fixer_node / ErrorFixerAgent.run
ErrorFixerNode ==
    /\ pc = "error_fixer"
    /\ sandbox_retry_count' = RetryCountAfterFixer
    /\ fixer_runs' = fixer_runs + 1
    /\ LET failed_results == FailedResults(sandbox_results)
       IN \E responses \in [1..Len(failed_results) -> LLMResponses] :
            LET f == FixErrors(failed_results, responses, transformed_ddl,
                               converted_procedures, {})
            IN /\ transformed_ddl' = f.ddls
               /\ converted_procedures' = f.procs
               /\ unverified' = unverified \cup f.rewritten
    /\ pc' = AfterErrorFixer
    /\ UNCHANGED <<migration_order, sandbox_results, errors, exec_log, last_pass,
                   always_failed, rejectable, topoVars, ddlVars, deployVars, moverVars, validVars, rowVars, resetVars, batchVars, orderVars, pipelineVars, sessionVars, convertVars, keyVars>>

NextFlow == SandboxNode \/ RouteAfterSandbox \/ ErrorFixerNode

SpecFlow == InitFlow /\ [][NextFlow]_vars

(* ------------------------------------------------------------------ *)
(* Properties of the sandbox / repair loop                             *)
(* ------------------------------------------------------------------ *)
Statuses(ddls, procs) ==
    <<[k \in DOMAIN ddls |-> ddls[k].status], [k \in DOMAIN procs |-> procs[k].status]>>

RecordedFailed(o) ==
    \E i \in DOMAIN sandbox_results :
        ObjKey(sandbox_results[i]) = o /\ ~sandbox_results[i].executed

\* C1: when the workflow reaches validation and some object has failed in
\* every sandbox pass, exactly MaxRetries repair cycles were performed and the
\* object is recorded with executed = FALSE.
C1_RetryBoundTermination ==
    (pc = "validation" /\ always_failed # {}) =>
        /\ fixer_runs = MaxRetries
        /\ \A o \in always_failed : RecordedFailed(o)

\* C2: the workflow is at validation only if the latest sandbox pass ran to
\* its end with zero failures, or the retry bound is reached.
C2_LeavesSandboxOnlyCleanOrBounded ==
    pc = "validation" =>
        \/ (last_pass.complete /\ last_pass.failures = 0)
        \/ sandbox_retry_count >= MaxRetries

\* the position of an object's class in the documented order of execution
ClassRank(type) ==
    CASE type = "table" -> 1
      [] type = "index" -> 2
      [] type = "constraint" -> 3
      [] type = "view" -> 4
      [] OTHER -> 5

ArtifactKeys ==
    {ObjKey(transformed_ddl[k]) : k \in DOMAIN transformed_ddl}
      \cup {<<converted_procedures[k].name, converted_procedures[k].procedure_type>> :
              k \in DOMAIN converted_procedures}

\* C3: in the log of a sandbox pass, the classes appear in the order tables,
\* indexes, deferred-FK constraints, views, procedures/functions/triggers, and
\* when a statement is executed every artifact of each earlier class has
\* already been executed in that pass.
C3_ExecutionOrder ==
    \A j \in DOMAIN exec_log :
        /\ \A i \in 1..(j - 1) : ClassRank(exec_log[i][2]) <= ClassRank(exec_log[j][2])
        /\ \A a \in ArtifactKeys :
              ClassRank(a[2]) < ClassRank(exec_log[j][2]) =>
                  \E i \in 1..(j - 1) : exec_log[i] = a

\* a pass has executed statements of all five classes
C3_Witness ==
    \A c \in 1..5 : \E i \in DOMAIN exec_log : ClassRank(exec_log[i][2]) = c

\* C7: the error fixer changes neither sandbox_results nor any status, its run
\* is followed by a sandbox pass, and no artifact it rewrote is still
\* unexecuted when the workflow is at validation.
C7_RepairIsReverified ==
    /\ [](pc = "validation" => unverified = {})
    /\ [][pc = "error_fixer" =>
            /\ sandbox_results' = sandbox_results
            /\ Statuses(transformed_ddl', converted_procedures')
                 = Statuses(transformed_ddl, converted_procedures)
            /\ pc' = "sandbox"]_vars

\* the workflow is at validation after the fixer rewrote a statement, which
\* the sandbox then executed
C7_Witness ==
    /\ pc = "validation"
    /\ fixer_runs > 0
    /\ \E k \in DOMAIN transformed_ddl :
          /\ transformed_ddl[k].object_type = "view"
          /\ transformed_ddl[k].target_ddl = "mysql"
          /\ transformed_ddl[k].status = "success"

\* C8: sandbox_retry_count changes only in the error fixer's step, there by
\* exactly one however many objects failed, and each fixer step changes it.
C8_RetryCounterOncePerCycle ==
    [][/\ (sandbox_retry_count' # sandbox_retry_count => pc = "error_fixer")
       /\ (pc = "error_fixer" => sandbox_retry_count' = sandbox_retry_count + 1)
       /\ (pc \in {"sandbox", "after_sandbox"} =>
              sandbox_retry_count' = sandbox_retry_count)]_vars

\* a repair cycle with two failed objects has run, and the counter is one
C8_Witness ==
    /\ pc = "sandbox"
    /\ sandbox_retry_count = 1
    /\ Len(FailedResults(sandbox_results)) = 2

\* C27: in a run the error fixer runs at most 3 times and sandbox_retry_count
\* never exceeds 3.
C27_AtMostThreeRetries ==
    /\ sandbox_retry_count <= 3
    /\ fixer_runs <= 3

\* the object behind an entry of transformed_ddl or converted_procedures has
\* a result with executed = true in state.sandbox_results
ExecutedInLatestPass(obj) ==
    LET key == IF obj[1] = "ddl"
               THEN ObjKey(transformed_ddl[obj[2]])
               ELSE <<converted_procedures[obj[2]].name,
                      converted_procedures[obj[2]].procedure_type>>
    IN \E i \in DOMAIN sandbox_results :
          ObjKey(sandbox_results[i]) = key /\ sandbox_results[i].executed

\* C32: a run of the error fixer replaces the statement text only of objects
\* that failed in the latest sandbox pass; an object whose latest result is
\* executed = true keeps its text, whatever its kind and name.
C32_RepairChangesOnlyFailedObjects ==
    [][pc = "error_fixer" =>
          \A obj \in unverified' \ unverified : ~ExecutedInLatestPass(obj)]_vars

(* ================================================================== *)
(* Blueprints and schema generation (SpecDDL)                          *)
(* ================================================================== *)
DdlTableIds == 1..DdlTables

\* MySQLIntrospector: a foreign key of a table, as the dict it builds
ForeignKey(t, k, ref) ==
    [name |-> <<"fk", t, k>>, columns |-> <<<<"col", k>>>>,
     referred_table |-> ref, referred_columns |-> <<"id">>]

\* MySQLIntrospector: the index MySQL keeps for a foreign key, named after
\* its column (idx_fk_<column>): index names are unique within a table
FkIndex(k, ref) ==
    [name |-> [style |-> "idx_fk_", part |-> <<"col", k>>], columns |-> <<<<"col", k>>>>,
     unique |-> FALSE]

\* str(col["type"]) of the first column of a table; "NULL" is what an
\* unrecognised (spatial) type reads as
ColumnTypes == {"INTEGER", "GEOMETRY", "POINT", "NULL"}

\* how the index a table has on its first column is named in the source:
\* idx_<x>, idx_<table>_<x>, or a name that does not start with idx_
OwnIndexStyles == {"idx_", "idx_table", "other"}

\* MySQLIntrospector: the index on the first column of table t, if it has one
OwnIndex(t, style) ==
    IF style = "none" THEN <<>>
    ELSE <<[name |-> [style |-> style,
                      part |-> IF style = "idx_table" THEN <<t, <<"geo", 0>>>>
                               ELSE <<"geo", 0>>],
            columns |-> <<<<"col", 0>>>>, unique |-> FALSE]>>

\* the schemas considered: any foreign keys among the tables, self-references
\* and circular pairs included, and possibly two foreign keys to one table;
\* a first column of any type, indexed or not, under any style of name
DdlSchemas ==
    { [t \in DdlTableIds |->
         LET refs == ForeignKeysOf(R, dbl, t)
         IN [name |-> t,
             columns |-> <<[name |-> <<"col", 0>>, type |-> ty]>>
                           \o [k \in DOMAIN refs |->
                                 [name |-> <<"col", k>>, type |-> "INTEGER"]],
             foreign_keys |-> [k \in DOMAIN refs |-> ForeignKey(t, k, refs[k])],
             indexes |-> OwnIndex(t, style)
                           \o [k \in DOMAIN refs |-> FkIndex(k, refs[k])]]] :
        R \in SUBSET (DdlTableIds \X DdlTableIds),
        dbl \in (DdlTableIds \X DdlTableIds) \cup {NoPair},
        ty \in ColumnTypes,
        style \in OwnIndexStyles \cup {"none"} }

\* tuple(sorted([table_a, table_b]))
SortedPair(table_a, table_b) ==
    IF table_a <= table_b THEN <<table_a, table_b>> ELSE <<table_b, table_a>>

\* BlueprintAgent._detect_circular_fks: fk_graph maps a table to the other
\* tables it references; every A, B with A->B and B->A is added as sorted pair
DetectCircularFks(tables) ==
    LET fk_graph == [a \in DOMAIN tables |->
                       {tables[a].foreign_keys[k].referred_table :
                           k \in DOMAIN tables[a].foreign_keys} \ {a}]
    IN {SortedPair(p[1], p[2]) :
           p \in {q \in (DOMAIN fk_graph) \X (DOMAIN fk_graph) :
                     q[2] \in fk_graph[q[1]] /\ q[1] \in fk_graph[q[2]]}}

\* a lookup of the pair as given, without sorting it
IsCircularFk_Unsorted(circular_pairs, table_name, ref_table) ==
    <<table_name, ref_table>> \in circular_pairs

\* is_circular_fk: tuple(sorted([table_name, ref_table])) in circular_pairs
IsCircularFk(circular_pairs, table_name, ref_table) ==
    SortedPair(table_name, ref_table) \in circular_pairs

\* BlueprintAgent._create_table_blueprint: the columns under "schema", the
\* indexes, and the foreign keys with the circular ones flagged and listed
\* again under "deferred"
CreateTableBlueprint(table, circular_pairs) ==
    LET outgoing_fks ==
            [k \in DOMAIN table.foreign_keys |->
               LET fk == table.foreign_keys[k]
               IN [name |-> fk.name, columns |-> fk.columns,
                   references_table |-> fk.referred_table,
                   references_columns |-> fk.referred_columns,
                   is_deferred |-> IsCircularFk(circular_pairs, table.name,
                                                fk.referred_table)]]
        deferred(fk) == fk.is_deferred
    IN [table_name |-> table.name,
        schema |-> [columns |-> [k \in DOMAIN table.columns |->
                                   [name |-> table.columns[k].name,
                                    mysql_type |-> table.columns[k].type]]],
        indexes |-> table.indexes,
        foreign_keys |-> [outgoing |-> outgoing_fks,
                          deferred |-> SelectSeq(outgoing_fks, deferred)]]

\* a pass that emits only the foreign keys flagged as deferred
FksToEmit_DeferredOnly(blueprint) == blueprint.foreign_keys.deferred

\* SchemaAgent._generate_deferred_fks: fks.get("outgoing", [])
FksToEmit(blueprint) == blueprint.foreign_keys.outgoing

\* SchemaAgent._generate_deferred_fks: the ALTER TABLE statements of one
\* blueprint; an entry without columns, table or referenced columns is skipped
AlterStatements(blueprint) ==
    LET complete(fk) == /\ fk.columns # <<>>
                        /\ fk.references_columns # <<>>
        fks == SelectSeq(FksToEmit(blueprint), complete)
    IN [k \in DOMAIN fks |->
          [alter_table |-> blueprint.table_name, add_constraint |-> fks[k].name,
           foreign_key |-> fks[k].columns, references |-> fks[k].references_table,
           ref_columns |-> fks[k].references_columns]]

\* SchemaAgent._generate_deferred_fks, over the blueprint files in glob order
GenerateDeferredFks(files, order) ==
    Flatten([i \in DOMAIN order |-> AlterStatements(files[order[i]])])

\* idx_name.startswith(f"idx_{table_name}")
StartsWithIdxTable(name, table_name) ==
    name.style = "idx_table" /\ name.part[1] = table_name

\* SchemaAgent._generate_indexes: the rename of an index that does not start
\* with idx_<table>: only a name that starts with idx_fk_ or idx_ is renamed
IndexName(table_name, name) ==
    IF StartsWithIdxTable(name, table_name) THEN name
    ELSE IF name.style \in {"idx_fk_", "idx_", "idx_table"}
         THEN [style |-> "idx_table", part |-> <<table_name, name.part>>]
         ELSE name

\* SchemaAgent._generate_indexes: needs_gist, from columns_info, which is built
\* from blueprint.get("columns", []) and read with col_info.get("type", "")
NeedsGist(blueprint, idx_columns) ==
    LET columns_info == IF "columns" \in DOMAIN blueprint
                        THEN blueprint.columns ELSE <<>>
        col_type(col) ==
            IF \E i \in DOMAIN columns_info : columns_info[i].name = col
            THEN LET col_info == columns_info[CHOOSE i \in DOMAIN columns_info :
                                                columns_info[i].name = col]
                 IN IF "type" \in DOMAIN col_info THEN col_info.type ELSE ""
            ELSE ""
    IN \E j \in DOMAIN idx_columns :
          col_type(idx_columns[j]) \in {"GEOMETRY", "POINT", "NULL"}

\* SchemaAgent._generate_indexes: the CREATE INDEX statements of one blueprint
IndexStatements(blueprint) ==
    LET usable(idx) == idx.columns # <<>>
        indexes == SelectSeq(blueprint.indexes, usable)
    IN [k \in DOMAIN indexes |->
          [create_index |-> IndexName(blueprint.table_name, indexes[k].name),
           unique |-> indexes[k].unique, on |-> blueprint.table_name,
           using |-> IF NeedsGist(blueprint, indexes[k].columns)
                     THEN "gist" ELSE "btree",
           columns |-> indexes[k].columns]]

GenerateIndexes(files, order) ==
    Flatten([i \in DOMAIN order |-> IndexStatements(files[order[i]])])

\* what the LLM returns for a table, after _clean_sql_output: a CREATE TABLE
\* alone, or one carrying FOREIGN KEY clauses, or one followed by CREATE INDEX
TableTexts == {"table_only", "with_foreign_key", "with_create_index"}

InitDDL ==
    /\ TopoIdle
    /\ FlowIdle
    /\ DeployIdle
    /\ MoverIdle
    /\ ValidIdle
    /\ RowIdle
    /\ ResetIdle
    /\ BatchIdle
    /\ OrderIdle
    /\ PipelineIdle
    /\ SessionsIdle
    /\ ConvertIdle
    /\ KeysIdle
    /\ dd_pc = "introspected"
    /\ schema_tables \in DdlSchemas
    /\ blueprints = <<>>
    /\ generated_ddl = <<>>

\* blueprint_node / BlueprintAgent.run
BlueprintRun ==
    /\ dd_pc = "introspected"
    /\ LET circular_pairs == DetectCircularFks(schema_tables)
       IN blueprints' = [t \in DOMAIN schema_tables |->
                           CreateTableBlueprint(schema_tables[t], circular_pairs)]
    /\ dd_pc' = "blueprinted"
    /\ UNCHANGED <<schema_tables, generated_ddl, topoVars, flowVars, deployVars, moverVars, validVars, rowVars, resetVars, batchVars, orderVars, pipelineVars, sessionVars, convertVars, keyVars>>

\* schema_node / SchemaAgent.run: a table artifact per table from the LLM, then
\* the "_deferred_fks" and "_indexes" batches when they are not empty; the
\* stage may be run again on the same schema and blueprints
SchemaRun ==
    /\ dd_pc \in {"blueprinted", "transformed"}
    /\ \E llm \in [DOMAIN schema_tables -> TableTexts],
          glob \in Permutations(DOMAIN schema_tables) :
        LET order == [i \in DOMAIN schema_tables |-> glob[i]]
            deferred_fks_sql == GenerateDeferredFks(blueprints, order)
            indexes_sql == GenerateIndexes(blueprints, order)
        IN generated_ddl' =
              [t \in DOMAIN schema_tables |->
                 TransformedDDL(schema_tables[t].name, "table", llm[t])]
                \o (IF deferred_fks_sql # <<>>
                      THEN <<TransformedDDL("_deferred_fks", "constraint", deferred_fks_sql)>>
                      ELSE <<>>)
                \o (IF indexes_sql # <<>>
                      THEN <<TransformedDDL("_indexes", "index", indexes_sql)>>
                      ELSE <<>>)
    /\ dd_pc' = "transformed"
    /\ UNCHANGED <<schema_tables, blueprints, topoVars, flowVars, deployVars, moverVars, validVars, rowVars, resetVars, batchVars, orderVars, pipelineVars, sessionVars, convertVars, keyVars>>

NextDDL == BlueprintRun \/ SchemaRun

SpecDDL == InitDDL /\ [][NextDDL]_vars

\* C5: every artifact of type "table" the schema stage holds is a CREATE TABLE
\* with no FOREIGN KEY clause and no CREATE INDEX statement in its text.
C5_TwoPassInvariant ==
    \A k \in DOMAIN generated_ddl :
        generated_ddl[k].object_type = "table" =>
            generated_ddl[k].target_ddl = "table_only"

\* the foreign keys the schema declares, as the statements that add them
DeclaredFks ==
    {[alter_table |-> schema_tables[t].name,
      add_constraint |-> schema_tables[t].foreign_keys[k].name,
      foreign_key |-> schema_tables[t].foreign_keys[k].columns,
      references |-> schema_tables[t].foreign_keys[k].referred_table,
      ref_columns |-> schema_tables[t].foreign_keys[k].referred_columns] :
        <<t, k>> \in {<<a, b>> \in (DOMAIN schema_tables) \X (1..(DdlTables + 1)) :
                         b \in DOMAIN schema_tables[a].foreign_keys}}

\* the statements of the "_deferred_fks" batch
EmittedFks ==
    Flatten([k \in DOMAIN generated_ddl |->
               IF generated_ddl[k].object_type = "constraint"
               THEN generated_ddl[k].target_ddl ELSE <<>>])

C17_CircularPairDetection ==
    LET circular_pairs == DetectCircularFks(schema_tables)
        HasFk(a, b) == \E k \in DOMAIN schema_tables[a].foreign_keys :
                          schema_tables[a].foreign_keys[k].referred_table = b
    IN /\ \A a \in DOMAIN schema_tables : \A b \in DOMAIN schema_tables :
             a # b =>
               /\ IsCircularFk(circular_pairs, a, b) <=> (HasFk(a, b) /\ HasFk(b, a))
               /\ IsCircularFk(circular_pairs, a, b) = IsCircularFk(circular_pairs, b, a)
       /\ \A p \in circular_pairs : p[1] < p[2]
       /\ dd_pc # "introspected" =>
             \A t \in DOMAIN blueprints :
               \A k \in DOMAIN blueprints[t].foreign_keys.outgoing :
                 LET fk == blueprints[t].foreign_keys.outgoing[k]
                 IN fk.is_deferred <=>
                      /\ fk.references_table # t
                      /\ HasFk(fk.references_table, t)

\* the blueprints of a schema with a circular pair are written, and the table
\* with the larger name carries the flag on its foreign key to the smaller
C17_Witness ==
    /\ dd_pc = "blueprinted"
    /\ DetectCircularFks(schema_tables) # {}
    /\ \E t \in DOMAIN blueprints :
          \E k \in DOMAIN blueprints[t].foreign_keys.outgoing :
             /\ blueprints[t].foreign_keys.outgoing[k].references_table < t
             /\ blueprints[t].foreign_keys.outgoing[k].is_deferred

\* the statements of the "_indexes" batch
EmittedIndexes ==
    Flatten([k \in DOMAIN generated_ddl |->
               IF generated_ddl[k].object_type = "index"
               THEN generated_ddl[k].target_ddl ELSE <<>>])

\* C18: once the schema stage has run, the name of every CREATE INDEX
\* statement of the index batch starts with idx_<table>_, <table> being the
\* table the index is created on.
C18_IndexNamePrefix ==
    dd_pc = "transformed" =>
        \A i \in DOMAIN EmittedIndexes :
            StartsWithIdxTable(EmittedIndexes[i].create_index, EmittedIndexes[i].on)

\* C19: once the schema stage has run, every CREATE INDEX statement over a
\* column whose source type is GEOMETRY, POINT or unknown uses GiST.
C19_SpatialIndexUsesGist ==
    dd_pc = "transformed" =>
        \A i \in DOMAIN EmittedIndexes :
            LET stmt == EmittedIndexes[i]
                source_columns == schema_tables[stmt.on].columns
            IN (\E j \in DOMAIN stmt.columns : \E c \in DOMAIN source_columns :
                   /\ source_columns[c].name = stmt.columns[j]
                   /\ source_columns[c].type \in {"GEOMETRY", "POINT", "NULL"})
                 => stmt.using = "gist"

\* two index names are the same text
SameIndexName(a, b) == a.style = b.style /\ a.part = b.part

\* C36: the index names emitted in the index pass are pairwise distinct across
\* the whole schema: two different source indexes, on the same table or on
\* different tables, never receive the same target index name.
C36_IndexNamesDistinct ==
    dd_pc = "transformed" =>
        \A i, j \in DOMAIN EmittedIndexes :
            i # j => ~SameIndexName(EmittedIndexes[i].create_index,
                                    EmittedIndexes[j].create_index)

\* the statements the schema stage holds: the CREATE TABLE text of each table,
\* the set of ALTER TABLE statements and the set of CREATE INDEX statements
StatementSets(ddl) ==
    LET is_table(d) == d.object_type = "table"
        statements(type) ==
            Range(Flatten([k \in DOMAIN ddl |->
                             IF ddl[k].object_type = type
                             THEN ddl[k].target_ddl ELSE <<>>]))
    IN [tables |-> SelectSeq(ddl, is_table),
        constraints |-> statements("constraint"),
        indexes |-> statements("index")]

\* C21: a second run of the schema stage on the unchanged schema leaves the
\* CREATE TABLE, constraint and index statements as the first run produced them.
C21_IdempotentRerun ==
    [][(dd_pc = "transformed" /\ dd_pc' = "transformed") =>
          StatementSets(generated_ddl') = StatementSets(generated_ddl)]_vars

(* ================================================================== *)
(* The UI's two phases and the production deployment (SpecDeploy)      *)
(* ================================================================== *)

\* init_session_state: nothing has run yet
InitDeploy ==
    /\ TopoIdle
    /\ FlowIdle
    /\ DdlIdle
    /\ MoverIdle
    /\ ValidIdle
    /\ DeployIdle
    /\ RowIdle
    /\ ResetIdle
    /\ BatchIdle
    /\ OrderIdle
    /\ PipelineIdle
    /\ SessionsIdle
    /\ ConvertIdle
    /\ KeysIdle

\* the "Start Migration" button, offered while not migration_running
StartMigrationAsync ==
    /\ ~migration_running
    /\ runs < MaxRuns
    /\ migration_running' = TRUE
    /\ migration_thread' = "alive"
    /\ thread_target' = "run_migration"
    /\ runs' = runs + 1
    /\ run_validation' = "running"
    /\ UNCHANGED <<migration_complete, production, deployments>>
    /\ UNCHANGED <<topoVars, flowVars, ddlVars, moverVars, validVars, rowVars, resetVars, batchVars, orderVars, pipelineVars, sessionVars, convertVars, keyVars>>

\* run_migration, the thread body of start_migration_async: the workflow ends
\* with validation passed, or with validation failed, or raises and is caught
RunMigration ==
    /\ migration_thread = "alive"
    /\ thread_target = "run_migration"
    /\ \E outcome \in {"passed", "failed", "crashed"} : run_validation' = outcome
    /\ migration_thread' = "dead"
    /\ UNCHANGED <<migration_running, migration_complete, thread_target, runs,
                   production, deployments>>
    /\ UNCHANGED <<topoVars, flowVars, ddlVars, moverVars, validVars, rowVars, resetVars, batchVars, orderVars, pipelineVars, sessionVars, convertVars, keyVars>>

\* main(), on a rerun of the page after the background thread has ended
MainThreadCheck ==
    /\ migration_thread = "dead"
    /\ migration_running' = FALSE
    /\ migration_complete' = TRUE
    /\ migration_thread' = "none"
    /\ UNCHANGED <<thread_target, run_validation, runs, production, deployments>>
    /\ UNCHANGED <<topoVars, flowVars, ddlVars, moverVars, validVars, rowVars, resetVars, batchVars, orderVars, pipelineVars, sessionVars, convertVars, keyVars>>

\* ProductionDeployAgent.run: the prerequisite check, then reset and schema
\* deploy, then data deploy unless the schema deploy failed
ProductionDeployAgentRun(validation_passed, schema_success) ==
    IF ~validation_passed
    THEN [operations |-> <<>>, errors |-> <<"prerequisite_error">>]
    ELSE IF ~schema_success
         THEN [operations |-> <<"reset", "schema">>,
               errors |-> <<"deployment_error">>]
         ELSE [operations |-> <<"reset", "schema", "data">>, errors |-> <<>>]

\* one deployment attempt, as the record kept of it
Deployment(by, validated, result) ==
    [by |-> by, run_validated |-> validated,
     operations |-> result.operations, errors |-> result.errors]

\* the "Deploy to Prod" button: enabled by deploy_enabled
StartProductionDeployAsync ==
    /\ migration_complete /\ ~migration_running
    /\ Len(deployments) < MaxDeployments
    /\ migration_running' = TRUE
    /\ migration_thread' = "alive"
    /\ thread_target' = "run_production_deploy"
    /\ UNCHANGED <<migration_complete, run_validation, runs, production, deployments>>
    /\ UNCHANGED <<topoVars, flowVars, ddlVars, moverVars, validVars, rowVars, resetVars, batchVars, orderVars, pipelineVars, sessionVars, convertVars, keyVars>>

\* run_production_deploy, the thread body: a state is rebuilt from the
\* artifacts (which may raise), validation_passed is set, and the agent runs
RunProductionDeploy ==
    /\ migration_thread = "alive"
    /\ thread_target = "run_production_deploy"
    /\ \E loaded \in BOOLEAN, schema_success \in BOOLEAN :
         LET validation_passed == TRUE
             result == ProductionDeployAgentRun(validation_passed, schema_success)
         IN IF loaded
            THEN /\ production' = production \o result.operations
                 /\ deployments' = Append(deployments,
                                     Deployment("app", run_validation = "passed", result))
            ELSE UNCHANGED <<production, deployments>>
    /\ migration_thread' = "dead"
    /\ UNCHANGED <<migration_running, migration_complete, thread_target,
                   run_validation, runs>>
    /\ UNCHANGED <<topoVars, flowVars, ddlVars, moverVars, validVars, rowVars, resetVars, batchVars, orderVars, pipelineVars, sessionVars, convertVars, keyVars>>

\* production_deploy_node, given the final state of a finished run
ProductionDeployNode ==
    /\ run_validation \in {"passed", "failed"}
    /\ migration_thread # "alive"
    /\ Len(deployments) < MaxDeployments
    /\ \E schema_success \in BOOLEAN :
         LET result == ProductionDeployAgentRun(run_validation = "passed", schema_success)
         IN /\ production' = production \o result.operations
            /\ deployments' = Append(deployments,
                                Deployment("node", run_validation = "passed", result))
    /\ UNCHANGED <<migration_running, migration_complete, migration_thread,
                   thread_target, run_validation, runs>>
    /\ UNCHANGED <<topoVars, flowVars, ddlVars, moverVars, validVars, rowVars, resetVars, batchVars, orderVars, pipelineVars, sessionVars, convertVars, keyVars>>

NextDeploy ==
    \/ StartMigrationAsync
    \/ RunMigration
    \/ MainThreadCheck
    \/ StartProductionDeployAsync
    \/ RunProductionDeploy
    \/ ProductionDeployNode

SpecDeploy == InitDeploy /\ [][NextDeploy]_vars

\* C9: every production deployment either belongs to a run whose sandbox
\* validation passed, or performed no operation on the production target and
\* recorded a prerequisite error.
C9_ProductionGate ==
    \A k \in DOMAIN deployments :
        \/ deployments[k].run_validated
        \/ /\ deployments[k].operations = <<>>
           /\ "prerequisite_error" \in Range(deployments[k].errors)

(* ================================================================== *)
(* The data movers (SpecMover)                                         *)
(* ================================================================== *)

\* a run of DataMigrationAgent.run or of DataMigrator.run_full_migration is
\* about to start on a destination that enforces its foreign keys
InitMover ==
    /\ TopoIdle
    /\ FlowIdle
    /\ DdlIdle
    /\ DeployIdle
    /\ ValidIdle
    /\ RowIdle
    /\ ResetIdle
    /\ BatchIdle
    /\ OrderIdle
    /\ PipelineIdle
    /\ SessionsIdle
    /\ ConvertIdle
    /\ KeysIdle
    /\ mv_mover \in {"DataMigrationAgent", "DataMigrator"}
    /\ mv_pc = "start"
    /\ mv_tables \in 0..MoverTables
    /\ mv_continue_on_error \in
          (IF mv_mover = "DataMigrator" THEN BOOLEAN ELSE {TRUE})
    /\ session_replication_role = "origin"
    /\ mv_log = <<>>
    /\ mv_errors = <<>>

\* what a run leaves alone apart from its own variables
MoverFrame ==
    /\ UNCHANGED <<mv_mover, mv_continue_on_error>>
    /\ UNCHANGED <<topoVars, flowVars, ddlVars, deployVars, validVars, rowVars, resetVars, batchVars, orderVars, pipelineVars, sessionVars, convertVars, keyVars>>

\* DataMigrator.run_full_migration: test_connections, returning early on failure
TestConnections ==
    /\ mv_mover = "DataMigrator" /\ mv_pc = "start"
    /\ \E ok \in BOOLEAN :
         IF ok THEN mv_pc' = "disable" /\ mv_errors' = mv_errors
               ELSE /\ mv_pc' = "done"
                    /\ mv_errors' = Append(mv_errors, "Database connection failed")
    /\ UNCHANGED <<mv_tables, session_replication_role, mv_log>>
    /\ MoverFrame

\* DataMigrationAgent.run: _get_table_order and _cache_column_types
GetTableOrder ==
    /\ mv_mover = "DataMigrationAgent" /\ mv_pc = "start"
    /\ mv_pc' = "disable"
    /\ UNCHANGED <<mv_tables, session_replication_role, mv_log, mv_errors>>
    /\ MoverFrame

\* DataMigrator.disable_foreign_keys returns False on failure, and the run
\* records the error and goes on
DisableForeignKeys ==
    /\ mv_mover = "DataMigrator" /\ mv_pc = "disable"
    /\ \E ok \in BOOLEAN :
         IF ok
         THEN /\ session_replication_role' = "replica"
              /\ mv_log' = Append(mv_log, "fk_disabled")
              /\ mv_errors' = mv_errors
         ELSE /\ mv_errors' = Append(mv_errors, "Failed to disable FK constraints")
              /\ UNCHANGED <<session_replication_role, mv_log>>
    /\ mv_pc' = "tables"
    /\ UNCHANGED mv_tables
    /\ MoverFrame

\* DataMigrationAgent._disable_fk_constraints raises on failure, which ends
\* the run in its except clause
DisableFkConstraints ==
    /\ mv_mover = "DataMigrationAgent" /\ mv_pc = "disable"
    /\ \E ok \in BOOLEAN :
         IF ok
         THEN /\ session_replication_role' = "replica"
              /\ mv_log' = Append(mv_log, "fk_disabled")
              /\ mv_pc' = "tables"
              /\ mv_errors' = mv_errors
         ELSE /\ mv_errors' = Append(mv_errors, "data_migration_error")
              /\ mv_pc' = "done"
              /\ UNCHANGED <<session_replication_role, mv_log>>
    /\ UNCHANGED mv_tables
    /\ MoverFrame

\* DataMigrator.migrate_table for the next table: get_table_columns is called
\* before the try block, so an exception of the inspector leaves
\* run_full_migration; else batches are inserted, and a failure is recorded;
\* the loop breaks on it unless continue_on_error
MigrateTable ==
    /\ mv_mover = "DataMigrator" /\ mv_pc = "tables" /\ mv_tables > 0
    /\ \E outcome \in {"migrated", "batch_failed", "columns_raised"} :
         CASE outcome = "migrated" ->
                /\ mv_log' = Append(mv_log, "insert")
                /\ mv_tables' = mv_tables - 1
                /\ UNCHANGED <<mv_errors, mv_pc>>
           [] outcome = "batch_failed" ->
                /\ mv_log' = Append(mv_log, "insert")
                /\ mv_errors' = Append(mv_errors, "batch_error")
                /\ mv_tables' = IF mv_continue_on_error THEN mv_tables - 1 ELSE 0
                /\ UNCHANGED mv_pc
           [] OTHER ->
                /\ mv_pc' = "raised"
                /\ UNCHANGED <<mv_log, mv_errors, mv_tables>>
    /\ UNCHANGED session_replication_role
    /\ MoverFrame

\* DataMigrationAgent._migrate_table for the next table: DELETE FROM, then the
\* batches; an exception ends the table and the run goes on
AgentMigrateTable ==
    /\ mv_mover = "DataMigrationAgent" /\ mv_pc = "tables" /\ mv_tables > 0
    /\ \E outcome \in {"migrated", "insert_failed", "delete_failed"} :
         mv_log' = mv_log \o
            (CASE outcome = "migrated" -> <<"delete", "insert">>
               [] outcome = "insert_failed" -> <<"delete">>
               [] OTHER -> <<>>)
    /\ mv_tables' = mv_tables - 1
    /\ UNCHANGED <<mv_pc, session_replication_role, mv_errors>>
    /\ MoverFrame

\* the table loop is over
TablesDone ==
    /\ mv_pc = "tables" /\ mv_tables = 0
    /\ mv_pc' = "enable"
    /\ UNCHANGED <<mv_tables, session_replication_role, mv_log, mv_errors>>
    /\ MoverFrame

\* DataMigrator.enable_foreign_keys returns False on failure, and the run
\* records the error and goes on
EnableForeignKeys ==
    /\ mv_mover = "DataMigrator" /\ mv_pc = "enable"
    /\ \E ok \in BOOLEAN :
         IF ok
         THEN /\ session_replication_role' = "origin"
              /\ mv_log' = Append(mv_log, "fk_enabled")
              /\ mv_errors' = mv_errors
         ELSE /\ mv_errors' = Append(mv_errors, "Failed to re-enable FK constraints")
              /\ UNCHANGED <<session_replication_role, mv_log>>
    /\ mv_pc' = "sequences"
    /\ UNCHANGED mv_tables
    /\ MoverFrame

\* DataMigrationAgent._enable_fk_constraints raises on failure
EnableFkConstraints ==
    /\ mv_mover = "DataMigrationAgent" /\ mv_pc = "enable"
    /\ \E ok \in BOOLEAN :
         IF ok
         THEN /\ session_replication_role' = "origin"
              /\ mv_log' = Append(mv_log, "fk_enabled")
              /\ mv_pc' = "sequences"
              /\ mv_errors' = mv_errors
         ELSE /\ mv_errors' = Append(mv_errors, "data_migration_error")
              /\ mv_pc' = "done"
              /\ UNCHANGED <<session_replication_role, mv_log>>
    /\ UNCHANGED mv_tables
    /\ MoverFrame

\* reset_sequences / _reset_sequences: failures are swallowed
ResetSequences ==
    /\ mv_pc = "sequences"
    /\ mv_log' = Append(mv_log, "reset_sequences")
    /\ mv_pc' = "validate"
    /\ UNCHANGED <<mv_tables, session_replication_role, mv_errors>>
    /\ MoverFrame

\* validate_row_counts / _validate_row_counts, then the summary
ValidateRowCounts ==
    /\ mv_pc = "validate"
    /\ mv_log' = Append(mv_log, "validate_row_counts")
    /\ mv_pc' = "done"
    /\ UNCHANGED <<mv_tables, session_replication_role, mv_errors>>
    /\ MoverFrame

NextMover ==
    \/ TestConnections
    \/ GetTableOrder
    \/ DisableForeignKeys
    \/ DisableFkConstraints
    \/ MigrateTable
    \/ AgentMigrateTable
    \/ TablesDone
    \/ EnableForeignKeys
    \/ EnableFkConstraints
    \/ ResetSequences
    \/ ValidateRowCounts

SpecMover == InitMover /\ [][NextMover]_vars

\* some earlier step of the run is the given one
Before(i, step) == \E j \in 1..(i - 1) : mv_log[j] = step

\* C10: in every data-mover run, rows are deleted or inserted only after FK
\* enforcement was disabled and before it is re-enabled, sequences are reset
\* only after it was re-enabled, and nothing follows the reconciliation.
C10_DataMoverStepOrder ==
    \A i \in DOMAIN mv_log :
        /\ mv_log[i] \in {"delete", "insert"} =>
              Before(i, "fk_disabled") /\ ~Before(i, "fk_enabled")
        /\ mv_log[i] = "reset_sequences" => Before(i, "fk_enabled")
        /\ mv_log[i] = "validate_row_counts" => i = Len(mv_log)

\* C33: a run that disabled FK enforcement on the destination has re-enabled
\* it when it returns, on every path: after table failures and after
\* exceptions raised once enforcement was disabled.
C33_FkReenabledOnReturn ==
    (mv_pc \in {"done", "raised"} /\ \E i \in DOMAIN mv_log : mv_log[i] = "fk_disabled") =>
        session_replication_role = "origin"

(* ================================================================== *)
(* Validation, its router, data migration and reporting (SpecValid)    *)
(* ================================================================== *)
Severities == {"critical", "warning", "info"}

\* the issue lists SchemaValidator.validate can return, by severity
IssueLists ==
    UNION {[1..n -> Severities] : n \in 0..MaxIssues}

\* SchemaComparisonResult after add_issue / add_pass: passed is cleared by a
\* critical issue only
SchemaComparisonResult(issues, passed_checks) ==
    [passed |-> \A k \in DOMAIN issues : issues[k] # "critical",
     passed_checks |-> passed_checks,
     failed_checks |-> Len(issues),
     issues |-> issues]

\* ValidationAgent.run: a ValidationResult per issue, failing for critical and
\* warning issues, then one passing result per passed check
ValidationResults(schema_result) ==
    [k \in DOMAIN schema_result.issues |->
        [validation_type |-> "schema_issue",
         status |-> IF schema_result.issues[k] \in {"critical", "warning"}
                    THEN "fail" ELSE "pass"]]
      \o [k \in 1..schema_result.passed_checks |->
            [validation_type |-> "schema_check", status |-> "pass"]]

\* the validation stage is about to run on a fresh MigrationState
InitValid ==
    /\ TopoIdle
    /\ FlowIdle
    /\ DdlIdle
    /\ DeployIdle
    /\ MoverIdle
    /\ RowIdle
    /\ ResetIdle
    /\ BatchIdle
    /\ OrderIdle
    /\ PipelineIdle
    /\ SessionsIdle
    /\ ConvertIdle
    /\ KeysIdle
    /\ vd_pc = "validation"
    /\ vd_outcome = "none"
    /\ vd_validation_passed = FALSE
    /\ validation_results = <<>>
    /\ vd_errors = <<>>
    /\ stage_log = <<>>
    /\ data_moved = FALSE

ValidFrame == UNCHANGED <<topoVars, flowVars, ddlVars, deployVars, moverVars, rowVars, resetVars, batchVars, orderVars, pipelineVars, sessionVars, convertVars, keyVars>>

\* validation_node / ValidationAgent.run: returns early without schema
\* metadata; an exception in the validator or in saving a report is caught
\* before the state is updated
ValidationNode ==
    /\ vd_pc = "validation"
    /\ \E has_metadata \in BOOLEAN, raised \in BOOLEAN,
          issues \in IssueLists, passed_checks \in 0..MaxPassedChecks :
         LET schema_result == SchemaComparisonResult(issues, passed_checks)
         IN IF ~has_metadata
            THEN /\ vd_outcome' = "no_metadata"
                 /\ UNCHANGED <<validation_results, vd_validation_passed, vd_errors>>
            ELSE IF raised
            THEN /\ vd_outcome' = "raised"
                 /\ vd_errors' = Append(vd_errors, "validation_error")
                 /\ UNCHANGED <<validation_results, vd_validation_passed>>
            ELSE /\ vd_outcome' = IF schema_result.passed THEN "passed" ELSE "failed"
                 /\ validation_results' = ValidationResults(schema_result)
                 /\ vd_validation_passed' = schema_result.passed
                 /\ vd_errors' = vd_errors
    /\ stage_log' = Append(stage_log, "validation")
    /\ vd_pc' = "after_validation"
    /\ UNCHANGED data_moved
    /\ ValidFrame

\* a router that always continues to data migration
ShouldContinueAfterValidation_Always(passed) == "data_migration"

\* should_continue_after_validation
ShouldContinueAfterValidation(passed) ==
    IF ~passed THEN "reporting" ELSE "data_migration"

\* the conditional edge out of "validation"
RouteAfterValidation ==
    /\ vd_pc = "after_validation"
    /\ vd_pc' = ShouldContinueAfterValidation(vd_validation_passed)
    /\ UNCHANGED <<vd_outcome, vd_validation_passed, validation_results, vd_errors,
                   stage_log, data_moved>>
    /\ ValidFrame

\* data_migration_node: one definition skips when validation has not passed,
\* the other runs the mover unconditionally; either may be the one in force
DataMigrationNode ==
    /\ vd_pc = "data_migration"
    /\ \E checks_validation \in BOOLEAN :
         data_moved' = IF checks_validation /\ ~vd_validation_passed
                       THEN data_moved ELSE TRUE
    /\ stage_log' = Append(stage_log, "data_migration")
    /\ vd_pc' = "reporting"
    /\ UNCHANGED <<vd_outcome, vd_validation_passed, validation_results, vd_errors>>
    /\ ValidFrame

\* reporting_node, then END
ReportingNode ==
    /\ vd_pc = "reporting"
    /\ stage_log' = Append(stage_log, "reporting")
    /\ vd_pc' = "end"
    /\ UNCHANGED <<vd_outcome, vd_validation_passed, validation_results, vd_errors,
                   data_moved>>
    /\ ValidFrame

NextValid ==
    \/ ValidationNode
    \/ RouteAfterValidation
    \/ DataMigrationNode
    \/ ReportingNode

SpecValid == InitValid /\ [][NextValid]_vars

RowTableIds == 1..RowTables

\* LIMIT :limit OFFSET :offset until an empty page: the sizes of the batches
\* fetched from a table of n rows, starting at the given offset
RECURSIVE Batches(_, _)
Batches(n, offset) ==
    IF offset >= n THEN <<>>
    ELSE <<IF n - offset < BatchSize THEN n - offset ELSE BatchSize>>
           \o Batches(n, offset + BatchSize)

RECURSIVE SumSeq(_)
SumSeq(s) == IF s = <<>> THEN 0 ELSE Head(s) + SumSeq(Tail(s))

\* the batches of a sequence whose number is not in the failed set
Succeeded(batches, failed) ==
    LET ok(k) == k \notin failed
    IN [i \in DOMAIN SelectSeq([k \in DOMAIN batches |-> k], ok) |->
          batches[SelectSeq([k \in DOMAIN batches |-> k], ok)[i]]]

\* DataMigrator.migrate_table: every batch is tried; a failed bulk_insert is
\* recorded and the next batch follows
TableMigrationResult(table, rows, failed) ==
    LET batches == Batches(rows, 0)
        inserted == SumSeq(Succeeded(batches, failed))
    IN [table |-> table, inserted |-> inserted, cleared |-> FALSE,
        rows_migrated |-> inserted,
        success |-> failed \cap DOMAIN batches = {},
        errors |-> SortedSeq(failed \cap DOMAIN batches)]

\* DataMigrationAgent._migrate_table: no columns ends it at once; otherwise
\* the destination is cleared and batches are inserted until one raises
AgentTableResult(table, rows, has_columns, fail_at) ==
    LET batches == Batches(rows, 0)
        failing == fail_at \in DOMAIN batches
        done == IF failing THEN SubSeq(batches, 1, fail_at - 1) ELSE batches
    IN IF ~has_columns
       THEN [table |-> table, inserted |-> 0, cleared |-> FALSE, rows_migrated |-> 0,
             success |-> FALSE, errors |-> <<"No columns found">>]
       ELSE [table |-> table, inserted |-> SumSeq(done), cleared |-> TRUE,
             rows_migrated |-> IF failing THEN 0 ELSE SumSeq(done),
             success |-> ~failing,
             errors |-> IF failing THEN <<fail_at>> ELSE <<>>]

\* a loop that stops at the first failed table whatever continue_on_error says
NextTableIndex_BreakOnFailure(success, continue_on_error, k, n) ==
    IF ~success THEN n + 1 ELSE k + 1

\* run_full_migration: `if not continue_on_error: break`
NextTableIndex(success, continue_on_error, k, n) ==
    IF ~success /\ ~continue_on_error THEN n + 1 ELSE k + 1

\* DataMigrator.validate_row_counts: a count that cannot be read counts as 0
ValidateRowCount(table, source, target, source_ok, target_ok) ==
    LET source_count == IF source_ok THEN source ELSE 0
        target_count == IF target_ok THEN target ELSE 0
    IN [table |-> table, source_count |-> source_count,
        target_count |-> target_count, match |-> source_count = target_count,
        error |-> FALSE]

\* DataMigrationAgent._validate_row_counts: a count that cannot be read leaves
\* the record unmatched, with the error in it
AgentValidateRowCount(table, source, target, source_ok, target_ok) ==
    IF source_ok /\ target_ok
    THEN [table |-> table, source_count |-> source, target_count |-> target,
          match |-> source = target, error |-> FALSE]
    ELSE [table |-> table, source_count |-> IF source_ok THEN source ELSE 0,
          target_count |-> 0, match |-> FALSE, error |-> TRUE]

\* a run is at its table loop; the destination may hold rows of an earlier run
InitRows ==
    /\ TopoIdle
    /\ FlowIdle
    /\ DdlIdle
    /\ DeployIdle
    /\ MoverIdle
    /\ ValidIdle
    /\ ResetIdle
    /\ BatchIdle
    /\ OrderIdle
    /\ PipelineIdle
    /\ SessionsIdle
    /\ ConvertIdle
    /\ KeysIdle
    /\ rw_mover \in {"DataMigrationAgent", "DataMigrator"}
    /\ rw_continue_on_error \in
          (IF rw_mover = "DataMigrator" THEN BOOLEAN ELSE {TRUE})
    /\ rw_pc = "tables"
    /\ rw_next = 1
    /\ source_rows \in [RowTableIds -> 0..MaxRows]
    /\ target_initial \in [RowTableIds -> 0..MaxStaleRows]
    /\ target_rows = target_initial
    /\ table_results = <<>>
    /\ row_counts = <<>>

RowFrame ==
    /\ UNCHANGED <<rw_mover, rw_continue_on_error, source_rows, target_initial>>
    /\ UNCHANGED <<topoVars, flowVars, ddlVars, deployVars, moverVars, validVars, resetVars, batchVars, orderVars, pipelineVars, sessionVars, convertVars, keyVars>>

\* one turn of the table loop: migrate the next table and record its result
MigrateNextTable ==
    /\ rw_pc = "tables" /\ rw_next <= RowTables
    /\ \E failed \in SUBSET (1..MaxFailedBatch), has_columns \in BOOLEAN,
          fail_at \in 0..MaxFailedBatch :
         LET t == rw_next
             result == IF rw_mover = "DataMigrator"
                       THEN TableMigrationResult(t, source_rows[t], failed)
                       ELSE AgentTableResult(t, source_rows[t], has_columns, fail_at)
         IN /\ target_rows' = [target_rows EXCEPT ![t] =
                                 (IF result.cleared THEN 0 ELSE @) + result.inserted]
            /\ table_results' = Append(table_results,
                                  [table |-> result.table, success |-> result.success,
                                   rows_migrated |-> result.rows_migrated,
                                   errors |-> result.errors])
            /\ rw_next' = NextTableIndex(result.success, rw_continue_on_error,
                                         rw_next, RowTables)
    /\ UNCHANGED <<rw_pc, row_counts>>
    /\ RowFrame

\* the loop has ended
EndOfTables ==
    /\ rw_pc = "tables" /\ rw_next > RowTables
    /\ rw_pc' = "validate"
    /\ UNCHANGED <<rw_next, target_rows, table_results, row_counts>>
    /\ RowFrame

\* validate_row_counts / _validate_row_counts over the whole table order
ValidateRowCountsRun ==
    /\ rw_pc = "validate"
    /\ \E source_ok \in [RowTableIds -> BOOLEAN], target_ok \in [RowTableIds -> BOOLEAN] :
         row_counts' =
            [t \in RowTableIds |->
               IF rw_mover = "DataMigrator"
               THEN ValidateRowCount(t, source_rows[t], target_rows[t],
                                     source_ok[t], target_ok[t])
               ELSE AgentValidateRowCount(t, source_rows[t], target_rows[t],
                                          source_ok[t], target_ok[t])]
    /\ rw_pc' = "done"
    /\ UNCHANGED <<rw_next, target_rows, table_results>>
    /\ RowFrame

NextRows == MigrateNextTable \/ EndOfTables \/ ValidateRowCountsRun

SpecRows == InitRows /\ [][NextRows]_vars

\* the run reported no error: every table result is a success without errors,
\* and no reconciliation record carries an error
NoErrorsReported ==
    /\ \A k \in DOMAIN table_results :
          table_results[k].success /\ table_results[k].errors = <<>>
    /\ \A k \in DOMAIN row_counts : ~row_counts[k].error

\* C12: after a run that reports no errors against an initially empty
\* destination, the reconciliation record of every migrated table has
\* source_count = target_count and match = true.
C12_RowCountReconciliation ==
    (/\ rw_pc = "done"
     /\ NoErrorsReported
     /\ \A t \in RowTableIds : target_initial[t] = 0) =>
        \A k \in DOMAIN table_results :
            LET rec == row_counts[table_results[k].table]
            IN rec.source_count = rec.target_count /\ rec.match

RowsCommitted(t) == target_rows[t]

\* C34: for every table, the rows_migrated value the data mover reports equals
\* the number of rows the run inserted and committed into that destination
\* table, also when a later batch of the same table fails.
C34_RowsMigratedIsRowsCommitted ==
    \A k \in DOMAIN table_results :
        target_initial[table_results[k].table] = 0 =>
            table_results[k].rows_migrated = RowsCommitted(table_results[k].table)

\* the destination holds what a first run over the same source left in it
AfterFirstRun == \A t \in RowTableIds : target_initial[t] = source_rows[t]

\* C35: a second run against the same unchanged source leaves each destination
\* table holding exactly the source rows: when the destination already holds
\* the rows of a first run and the second run has ended with every table
\* migrated, no table holds more or fewer rows than its source table. (Where
\* a key rejects the repeated rows instead, the batch fails and the table is
\* reported as failed, which the claim excludes as well.)
C35_SecondRunLeavesSourceRows ==
    (/\ AfterFirstRun
     /\ rw_pc # "tables"
     /\ Len(table_results) = RowTables
     /\ \A k \in DOMAIN table_results : table_results[k].success) =>
        \A t \in RowTableIds : target_rows[t] = source_rows[t]

(* ================================================================== *)
(* The sandbox database across passes (SpecReset)                      *)
(* ================================================================== *)
\* drop_all_objects: views, tables, sequences, functions, enum types
DropOrder == <<"view", "table", "sequence", "function", "type">>

\* the objects a pass can leave in the sandbox, one of each kind
SandboxObjects == {DropOrder[k] : k \in DOMAIN DropOrder}

\* drop_all_objects: the objects are visited class by class; a DROP that
\* fails is recorded in errors and the next one is tried; an exception outside
\* the single DROPs (stopped_at) ends the visit at that class
DropAllObjects(objects, failing, stopped_at) ==
    LET visited(k) == k < stopped_at /\ DropOrder[k] \in objects
        order == SelectSeq([k \in DOMAIN DropOrder |-> k], visited)
        ok(k) == DropOrder[k] \notin failing
        dropped == SelectSeq(order, ok)
    IN [dropped |-> [i \in DOMAIN dropped |-> DropOrder[dropped[i]]],
        errors |-> Len(order) - Len(dropped)
                     + (IF stopped_at <= Len(DropOrder) THEN 1 ELSE 0),
        success |-> /\ stopped_at > Len(DropOrder)
                    /\ Len(order) = Len(dropped)]

\* the run is at its first sandbox pass; the sandbox may hold objects of an
\* earlier run
InitReset ==
    /\ TopoIdle
    /\ FlowIdle
    /\ DdlIdle
    /\ DeployIdle
    /\ MoverIdle
    /\ ValidIdle
    /\ RowIdle
    /\ BatchIdle
    /\ OrderIdle
    /\ PipelineIdle
    /\ SessionsIdle
    /\ ConvertIdle
    /\ KeysIdle
    /\ rs_pc = "reset"
    /\ rs_pass = 1
    /\ sb_objects \in SUBSET SandboxObjects
    /\ rs_dropped = <<>>
    /\ rs_left = {}

ResetFrame ==
    UNCHANGED <<topoVars, flowVars, ddlVars, deployVars, moverVars, validVars, rowVars, batchVars, orderVars, pipelineVars, sessionVars, convertVars, keyVars>>

\* SandboxAgent.run, lines 40-43: self.executor.reset(); the result is only
\* logged
SandboxReset ==
    /\ rs_pc = "reset"
    /\ \E failing \in SUBSET sb_objects, stopped_at \in 1..(Len(DropOrder) + 1) :
         LET reset_result == DropAllObjects(sb_objects, failing, stopped_at)
         IN /\ rs_dropped' = reset_result.dropped
            /\ sb_objects' = sb_objects \ Range(reset_result.dropped)
            /\ rs_left' = sb_objects \ Range(reset_result.dropped)
    /\ rs_pc' = "execute"
    /\ UNCHANGED rs_pass
    /\ ResetFrame

\* SandboxAgent.run, lines 45-118: the statements of the pass, each creating
\* its object or failing
SandboxExecute ==
    /\ rs_pc = "execute"
    /\ \E created \in SUBSET SandboxObjects : sb_objects' = sb_objects \cup created
    /\ rs_pc' = "after_sandbox"
    /\ UNCHANGED <<rs_pass, rs_dropped, rs_left>>
    /\ ResetFrame

\* error_fixer -> sandbox: the next pass starts
NextPass ==
    /\ rs_pc = "after_sandbox"
    /\ rs_pass < MaxPasses
    /\ rs_pass' = rs_pass + 1
    /\ rs_pc' = "reset"
    /\ UNCHANGED <<sb_objects, rs_dropped, rs_left>>
    /\ ResetFrame

NextReset == SandboxReset \/ SandboxExecute \/ NextPass

SpecReset == InitReset /\ [][NextReset]_vars

\* C14: when the first statement of a sandbox pass is about to execute,
\* nothing of what earlier passes left is still in the sandbox, and the drops
\* were made in the order views, tables, sequences, functions, enum types.
C14_ResetBeforeRun ==
    rs_pc = "execute" =>
        /\ rs_left = {}
        /\ \A i, j \in DOMAIN rs_dropped :
              i < j => IndexOf(DropOrder, rs_dropped[i]) < IndexOf(DropOrder, rs_dropped[j])

(* ------------------------------------------------------------------ *)
(* The inline fix and retry (SpecFlow)                                 *)
(* ------------------------------------------------------------------ *)
\* the statement text the run holds for a recorded object
StatementOf(key) ==
    IF \E k \in DOMAIN transformed_ddl : ObjKey(transformed_ddl[k]) = key
    THEN transformed_ddl[CHOOSE k \in DOMAIN transformed_ddl :
                            ObjKey(transformed_ddl[k]) = key].target_ddl
    ELSE converted_procedures[CHOOSE k \in DOMAIN converted_procedures :
            <<converted_procedures[k].name, converted_procedures[k].procedure_type>> = key
         ].target_code

\* C15: after a sandbox pass that ran to its end, every object recorded as failed whose statement
\* the deterministic fixer changes was retried once inline (retry_count = 1),
\* whatever its class, procedures, functions and triggers included.
C15_InlineFixBeforeEscalation ==
    (pc = "after_sandbox" /\ last_pass.complete) =>
        \A i \in DOMAIN sandbox_results :
            LET r == sandbox_results[i]
            IN (~r.executed /\ AttemptFix(StatementOf(ObjKey(r))) # StatementOf(ObjKey(r)))
                  => r.retry_count = 1

(* ================================================================== *)
(* The batched index and constraint artifacts in the sandbox (SpecBatch) *)
(* ================================================================== *)
\* the statements a batch can hold: numbered, and written in a form the
\* deterministic fixer leaves alone ("clean") or rewrites ("mysql")
BatchStatements(type, n) ==
    {[k \in 1..n |-> [id |-> <<type, k>>, text |-> texts[k]]] :
        texts \in [1..n -> {"clean", "mysql"}]}

\* SchemaAgent.run: "\n\n".join(statements) as the target_ddl of one artifact
BatchArtifacts ==
    {(IF ix = <<>> THEN <<>> ELSE <<[object_name |-> "_indexes", object_type |-> "index",
                                     target_ddl |-> ix]>>)
       \o (IF fk = <<>> THEN <<>> ELSE <<[object_name |-> "_deferred_fks",
                                         object_type |-> "constraint", target_ddl |-> fk]>>) :
        ix \in UNION {BatchStatements("index", n) : n \in 0..MaxBatchStatements},
        fk \in UNION {BatchStatements("constraint", n) : n \in 0..MaxBatchStatements}}

\* the database rejects a statement still in MySQL form, and any statement it
\* has a reason of its own to reject
Rejected(stmt, rejects) == stmt.text = "mysql" \/ stmt.id \in rejects

\* PostgreSQLExecutor.execute_ddl on a text of several statements: they run in
\* order up to the first one rejected, which raises; whether the ones before
\* it stay applied depends on the transaction the driver has open
ExecuteText(statements, rejects, prefix_kept) ==
    LET bad(k) == Rejected(statements[k], rejects)
        failing == {k \in DOMAIN statements : bad(k)}
        first == IF failing = {} THEN Len(statements) + 1
                 ELSE CHOOSE k \in failing : \A j \in failing : k <= j
        ids(a, b) == {statements[k].id : k \in a..b}
    IN [success |-> failing = {},
        attempted |-> ids(1, IF failing = {} THEN Len(statements) ELSE first),
        applied |-> IF failing = {} \/ prefix_kept THEN ids(1, first - 1) ELSE {}]

\* SandboxAgent._attempt_fix over the text of a whole batch
AttemptFixText(statements) ==
    [k \in DOMAIN statements |-> [statements[k] EXCEPT !.text = AttemptFix(@)]]

\* SandboxAgent._execute_and_record for a batch artifact: the whole text is
\* executed, fixed and retried as one statement, and one result is recorded
ExecuteBatchAndRecord(ddl, rejects, prefix_kept) ==
    LET result == ExecuteText(ddl.target_ddl, rejects, prefix_kept)
        fixed_ddl == AttemptFixText(ddl.target_ddl)
        retry_result == ExecuteText(fixed_ddl, rejects, prefix_kept)
    IN IF result.success
       THEN [attempted |-> result.attempted, applied |-> result.applied, ddl |-> ddl,
             result |-> SandboxResult(ddl.object_name, ddl.object_type, TRUE, 0)]
       ELSE IF fixed_ddl # ddl.target_ddl
            THEN [attempted |-> result.attempted \cup retry_result.attempted,
                  applied |-> result.applied \cup retry_result.applied,
                  ddl |-> IF retry_result.success
                          THEN [ddl EXCEPT !.target_ddl = fixed_ddl] ELSE ddl,
                  result |-> SandboxResult(ddl.object_name, ddl.object_type,
                                           retry_result.success, 1)]
            ELSE [attempted |-> result.attempted, applied |-> result.applied, ddl |-> ddl,
                  result |-> SandboxResult(ddl.object_name, ddl.object_type, FALSE, 0)]

\* a sandbox pass is about to execute its index and deferred-FK batches
InitBatch ==
    /\ TopoIdle
    /\ FlowIdle
    /\ DdlIdle
    /\ DeployIdle
    /\ MoverIdle
    /\ ValidIdle
    /\ RowIdle
    /\ ResetIdle
    /\ OrderIdle
    /\ PipelineIdle
    /\ SessionsIdle
    /\ ConvertIdle
    /\ KeysIdle
    /\ bt_pc = "batches"
    /\ bt_ddl \in BatchArtifacts
    /\ bt_rejects \in SUBSET {<<"index", 1>>, <<"constraint", 1>>}
    /\ bt_attempted = {}
    /\ bt_applied = {}
    /\ bt_results = <<>>

\* SandboxAgent.run, steps 2 and 3: the loops over indexes and deferred_fks
ExecuteBatches ==
    /\ bt_pc = "batches"
    /\ \E prefix_kept \in BOOLEAN :
         LET recorded == [k \in DOMAIN bt_ddl |->
                        ExecuteBatchAndRecord(bt_ddl[k], bt_rejects, prefix_kept)]
         IN /\ bt_attempted' = UNION {recorded[k].attempted : k \in DOMAIN recorded}
            /\ bt_applied' = UNION {recorded[k].applied : k \in DOMAIN recorded}
            /\ bt_results' = [k \in DOMAIN recorded |-> recorded[k].result]
            /\ bt_ddl' = [k \in DOMAIN recorded |-> recorded[k].ddl]
    /\ bt_pc' = "done"
    /\ UNCHANGED bt_rejects
    /\ UNCHANGED <<topoVars, flowVars, ddlVars, deployVars, moverVars, validVars, rowVars,
                   resetVars, orderVars, pipelineVars, sessionVars, convertVars, keyVars>>

NextBatch == ExecuteBatches

SpecBatch == InitBatch /\ [][NextBatch]_vars

\* C16: after the pass, every statement of the batches was executed on its
\* own: each one was attempted, and each one the database accepts (as written
\* or as fixed) is in place, whatever happened to the other statements.
C16_BatchStatementsIndependent ==
    bt_pc = "done" =>
        \A k \in DOMAIN bt_ddl : \A i \in DOMAIN bt_ddl[k].target_ddl :
            LET stmt == bt_ddl[k].target_ddl[i]
            IN /\ stmt.id \in bt_attempted
               /\ stmt.id \notin bt_rejects => stmt.id \in bt_applied
(* ================================================================== *)
(* The data movers' table order (SpecOrder)                            *)
(* ================================================================== *)

\* a table name without a prefix, as opposed to the node id "table:<name>"
BareName(t) == <<"", t>>

\* the dependency graphs a mover can be handed: none, or one whose
\* migration_order lists node ids of tables and of a view, none twice
OrderGraphs ==
    LET ids == {TableNode(t) : t \in TableIds} \cup {ViewNode(1)}
        orders == UNION {{o \in [1..n -> ids] :
                            \A i \in 1..n : \A j \in 1..n : o[i] = o[j] => i = j} :
                         n \in 0..(NumTables + 1)}
    IN {[present |-> FALSE, migration_order |-> <<>>]}
         \cup {[present |-> TRUE, migration_order |-> o] : o \in orders}

\* a fallback that returns the table names as the inspector listed them
GetMigrationOrder_AsListed(dependency_graph, source_tables) ==
    IF dependency_graph.present /\ dependency_graph.migration_order # <<>>
    THEN dependency_graph.migration_order
    ELSE source_tables

\* DataMigrator.get_migration_order
GetMigrationOrder(dependency_graph, source_tables) ==
    IF dependency_graph.present /\ dependency_graph.migration_order # <<>>
    THEN dependency_graph.migration_order
    ELSE LET names == SortedSeq({source_tables[i][2] : i \in DOMAIN source_tables})
         IN [i \in DOMAIN names |-> BareName(names[i])]

\* DataMigrationAgent._get_table_order
AgentGetTableOrder(dependency_graph, source_tables) ==
    IF dependency_graph.present /\ dependency_graph.migration_order # <<>>
    THEN LET starts_with_table(obj_id) == obj_id[1] = "table"
             table_ids == SelectSeq(dependency_graph.migration_order, starts_with_table)
         IN [i \in DOMAIN table_ids |-> BareName(table_ids[i][2])]
    ELSE source_tables

\* a mover is about to start
InitOrder ==
    /\ TopoIdle
    /\ FlowIdle
    /\ DdlIdle
    /\ DeployIdle
    /\ MoverIdle
    /\ ValidIdle
    /\ RowIdle
    /\ ResetIdle
    /\ BatchIdle
    /\ PipelineIdle
    /\ SessionsIdle
    /\ ConvertIdle
    /\ KeysIdle
    /\ od_mover \in {"DataMigrationAgent", "DataMigrator"}
    /\ od_pc = "start"
    /\ od_graph \in OrderGraphs
    /\ \E listed \in Permutations(TableIds) :
          od_source_tables = [i \in TableIds |-> BareName(listed[i])]
    /\ od_table_list = <<>>
    /\ od_processed = <<>>

\* what a mover leaves alone apart from its own variables
OrderFrame ==
    /\ UNCHANGED <<od_mover, od_graph, od_source_tables>>
    /\ UNCHANGED <<topoVars, flowVars, ddlVars, deployVars, moverVars, validVars, rowVars, resetVars, batchVars, pipelineVars, sessionVars, convertVars, keyVars>>

\* run_full_migration: tables = self.get_migration_order(dependency_graph);
\* DataMigrationAgent.run: table_order = self._get_table_order(state)
DetermineTableOrder ==
    /\ od_pc = "start"
    /\ od_table_list' = IF od_mover = "DataMigrator"
                        THEN GetMigrationOrder(od_graph, od_source_tables)
                        ELSE AgentGetTableOrder(od_graph, od_source_tables)
    /\ od_pc' = "tables"
    /\ UNCHANGED od_processed
    /\ OrderFrame

\* for table in tables: migrate_table(table) / _migrate_table(table_name)
MigrateListedTable ==
    /\ od_pc = "tables"
    /\ Len(od_processed) < Len(od_table_list)
    /\ od_processed' = Append(od_processed, od_table_list[Len(od_processed) + 1])
    /\ UNCHANGED <<od_pc, od_table_list>>
    /\ OrderFrame

\* the table loop is over
TableLoopDone ==
    /\ od_pc = "tables"
    /\ Len(od_processed) = Len(od_table_list)
    /\ od_pc' = "done"
    /\ UNCHANGED <<od_table_list, od_processed>>
    /\ OrderFrame

NextOrder == DetermineTableOrder \/ MigrateListedTable \/ TableLoopDone

SpecOrder == InitOrder /\ [][NextOrder]_vars

\* the bare names of the tables of a migration order, in its order
TableNamesOf(order) ==
    LET is_table(obj_id) == obj_id[1] = "table"
        table_ids == SelectSeq(order, is_table)
    IN [i \in DOMAIN table_ids |-> BareName(table_ids[i][2])]

\* C22: a mover handed a graph with a migration order runs its table loop for
\* the bare names of the tables of that order, in that order, and for nothing else.
C22_MoverFollowsMigrationOrder ==
    (od_pc = "done" /\ od_graph.present /\ od_graph.migration_order # <<>>) =>
        od_processed = TableNamesOf(od_graph.migration_order)

\* C23: the DataMigrator's table list is the graph's migration_order itself
\* when a graph with a non-empty order is supplied, and otherwise the source's
\* table names in increasing order.
C23_GetMigrationOrder ==
    (od_mover = "DataMigrator" /\ od_pc # "start") =>
        IF od_graph.present /\ od_graph.migration_order # <<>>
        THEN od_table_list = od_graph.migration_order
        ELSE /\ Range(od_table_list) = Range(od_source_tables)
             /\ \A i \in DOMAIN od_table_list : \A j \in DOMAIN od_table_list :
                   i < j => od_table_list[i][2] < od_table_list[j][2]

\* the DataMigrator fell back to the source's tables, which the inspector
\* listed out of order, and ran over them
C23_Witness ==
    /\ od_mover = "DataMigrator"
    /\ od_pc = "done"
    /\ ~od_graph.present
    /\ od_source_tables[1][2] > od_source_tables[2][2]
    /\ Len(od_processed) = NumTables
(* ================================================================== *)
(* A run of the workflow, stage by stage (SpecPipeline)                *)
(* ================================================================== *)

\* state.errors.append({"phase": ..., "error_type": ...})
StageError(phase, error_type) == [phase |-> phase, error_type |-> error_type]

\* run_migration: the workflow starts at its entry point on a fresh state
InitPipeline ==
    /\ TopoIdle
    /\ FlowIdle
    /\ DdlIdle
    /\ DeployIdle
    /\ MoverIdle
    /\ ValidIdle
    /\ RowIdle
    /\ ResetIdle
    /\ BatchIdle
    /\ OrderIdle
    /\ SessionsIdle
    /\ ConvertIdle
    /\ KeysIdle
    /\ pl_pc = "introspection"
    /\ pl_schema_metadata = FALSE
    /\ pl_errors = <<>>
    /\ pl_ops = <<>>
    /\ pl_retry_count = 0
    /\ pl_failures = FALSE
    /\ pl_validation_passed = FALSE
    /\ pl_reports = 0
    /\ pl_raised = {}
    /\ pl_overall_status = "pending"

\* what no stage of the run touches
PipelineFrame ==
    UNCHANGED <<topoVars, flowVars, ddlVars, deployVars, moverVars, validVars, rowVars, resetVars, batchVars, orderVars, sessionVars, convertVars, keyVars>>

\* a stage whose run returns at once without schema metadata and otherwise
\* wraps its work in try/except, appending an error tagged with its phase
CaughtStage(stage, phase, error_type, next) ==
    /\ IF ~pl_schema_metadata
       THEN UNCHANGED <<pl_errors, pl_raised>>
       ELSE \E raised \in BOOLEAN :
              IF raised
              THEN /\ pl_errors' = Append(pl_errors, StageError(phase, error_type))
                   /\ pl_raised' = pl_raised \cup {stage}
              ELSE UNCHANGED <<pl_errors, pl_raised>>
    /\ pl_pc' = next
    /\ UNCHANGED <<pl_schema_metadata, pl_ops, pl_retry_count, pl_failures,
                   pl_validation_passed, pl_reports>>
    /\ UNCHANGED pl_overall_status
    /\ PipelineFrame

\* introspection_node / IntrospectionAgent.run, then the edge to "dependency"
PipelineIntrospection ==
    /\ pl_pc = "introspection"
    /\ \E outcome \in {"extracted", "connection_failed", "raised"} :
         CASE outcome = "extracted" ->
                /\ pl_schema_metadata' = TRUE
                /\ UNCHANGED <<pl_errors, pl_raised>>
           [] outcome = "connection_failed" ->
                /\ pl_errors' = Append(pl_errors,
                                       StageError("introspection", "connection_error"))
                /\ UNCHANGED <<pl_schema_metadata, pl_raised>>
           [] OTHER ->
                /\ pl_errors' = Append(pl_errors,
                                       StageError("introspection", "introspection_error"))
                /\ pl_raised' = pl_raised \cup {"introspection"}
                /\ UNCHANGED pl_schema_metadata
    /\ pl_pc' = "dependency"
    /\ UNCHANGED <<pl_ops, pl_retry_count, pl_failures, pl_validation_passed, pl_reports>>
    /\ UNCHANGED pl_overall_status
    /\ PipelineFrame

\* dependency_node / DependencyAgent.run, then the edge to "blueprint"
PipelineDependency ==
    /\ pl_pc = "dependency"
    /\ CaughtStage("dependency", "dependency_analysis", "dependency_error", "blueprint")

\* blueprint_node / BlueprintAgent.run: it returns at once without schema
\* metadata; its file writes are in no try block, so an exception leaves the
\* node and ends workflow.stream
PipelineBlueprint ==
    /\ pl_pc = "blueprint"
    /\ IF ~pl_schema_metadata
       THEN pl_pc' = "schema" /\ UNCHANGED pl_raised
       ELSE \E raised \in BOOLEAN :
              IF raised
              THEN pl_pc' = "aborted" /\ pl_raised' = pl_raised \cup {"blueprint"}
              ELSE pl_pc' = "schema" /\ UNCHANGED pl_raised
    /\ UNCHANGED <<pl_schema_metadata, pl_errors, pl_ops, pl_retry_count, pl_failures,
                   pl_validation_passed, pl_reports>>
    /\ UNCHANGED pl_overall_status
    /\ PipelineFrame

\* schema_node / SchemaAgent.run, then the edge to "logic"
PipelineSchema ==
    /\ pl_pc = "schema"
    /\ CaughtStage("schema", "schema_transformation", "transformation_error", "logic")

\* logic_node / LogicAgent.run, then the edge to "sandbox"
PipelineLogic ==
    /\ pl_pc = "logic"
    /\ CaughtStage("logic", "logic_conversion", "conversion_error", "sandbox")

\* sandbox_node / SandboxAgent.run: the reset, then the DDL there is, then the
\* results; should_continue_after_sandbox picks the next node
PipelineSandbox ==
    /\ pl_pc = "sandbox"
    /\ pl_ops' = pl_ops \o <<"sandbox_reset">>
                       \o (IF pl_schema_metadata THEN <<"execute_ddl">> ELSE <<>>)
    /\ \E raised \in BOOLEAN, failed \in BOOLEAN :
         /\ (~pl_schema_metadata => ~failed)
         /\ IF raised
            THEN /\ pl_errors' = Append(pl_errors,
                                        StageError("sandbox_testing", "sandbox_error"))
                 /\ pl_raised' = pl_raised \cup {"sandbox"}
                 /\ failed = pl_failures
                 /\ UNCHANGED pl_failures
            ELSE /\ pl_failures' = failed
                 /\ UNCHANGED <<pl_errors, pl_raised>>
         /\ pl_pc' = IF pl_failures' /\ pl_retry_count < MaxRetries
                     THEN "error_fixer" ELSE "validation"
    /\ UNCHANGED <<pl_schema_metadata, pl_retry_count, pl_validation_passed, pl_reports>>
    /\ UNCHANGED pl_overall_status
    /\ PipelineFrame

\* error_fixer_node / ErrorFixerAgent.run, then the edge back to "sandbox"
PipelineErrorFixer ==
    /\ pl_pc = "error_fixer"
    /\ pl_retry_count' = pl_retry_count + 1
    /\ pl_pc' = "sandbox"
    /\ UNCHANGED <<pl_schema_metadata, pl_errors, pl_ops, pl_failures,
                   pl_validation_passed, pl_reports, pl_raised>>
    /\ UNCHANGED pl_overall_status
    /\ PipelineFrame

\* validation_node / ValidationAgent.run; should_continue_after_validation
\* picks the next node. SchemaValidator.validate compares tables, columns,
\* keys and indexes only, so a view or procedure that failed in the sandbox has
\* no part in its result
PipelineValidation ==
    /\ pl_pc = "validation"
    /\ IF ~pl_schema_metadata
       THEN UNCHANGED <<pl_errors, pl_raised, pl_validation_passed>>
       ELSE \E outcome \in {"passed", "not_passed", "raised"} :
              IF outcome = "raised"
              THEN /\ pl_errors' = Append(pl_errors,
                                          StageError("validation", "validation_error"))
                   /\ pl_raised' = pl_raised \cup {"validation"}
                   /\ UNCHANGED pl_validation_passed
              ELSE /\ pl_validation_passed' = (outcome = "passed")
                   /\ UNCHANGED <<pl_errors, pl_raised>>
    /\ pl_pc' = ShouldContinueAfterValidation(pl_validation_passed')
    /\ UNCHANGED <<pl_schema_metadata, pl_ops, pl_retry_count, pl_failures, pl_reports>>
    /\ UNCHANGED pl_overall_status
    /\ PipelineFrame

\* data_migration_node / DataMigrationAgent.run, then the edge to "reporting"
PipelineDataMigration ==
    /\ pl_pc = "data_migration"
    /\ pl_ops' = Append(pl_ops, "data_migration")
    /\ \E raised \in BOOLEAN :
         IF raised
         THEN /\ pl_errors' = Append(pl_errors,
                                     StageError("data_migration", "data_migration_error"))
              /\ pl_raised' = pl_raised \cup {"data_migration"}
         ELSE UNCHANGED <<pl_errors, pl_raised>>
    /\ pl_pc' = "reporting"
    /\ UNCHANGED <<pl_schema_metadata, pl_retry_count, pl_failures,
                   pl_validation_passed, pl_reports>>
    /\ UNCHANGED pl_overall_status
    /\ PipelineFrame

\* ReportingAgent._is_success
IsSuccess(state_errors, passed) ==
    IF state_errors # <<>> THEN FALSE
    ELSE IF ~passed THEN FALSE
    ELSE TRUE

\* reporting_node / ReportingAgent.run: an exception while the report is
\* generated or saved leaves the status as it was; then the edge to END
PipelineReporting ==
    /\ pl_pc = "reporting"
    /\ pl_reports' = pl_reports + 1
    /\ \E raised \in BOOLEAN :
         IF raised
         THEN /\ pl_errors' = Append(pl_errors, StageError("reporting", "reporting_error"))
              /\ pl_raised' = pl_raised \cup {"reporting"}
              /\ UNCHANGED pl_overall_status
         ELSE /\ pl_overall_status' = IF IsSuccess(pl_errors, pl_validation_passed)
                                      THEN "success" ELSE "failed"
              /\ UNCHANGED <<pl_errors, pl_raised>>
    /\ pl_pc' = "END"
    /\ UNCHANGED <<pl_schema_metadata, pl_ops, pl_retry_count, pl_failures,
                   pl_validation_passed>>
    /\ PipelineFrame

NextPipeline ==
    \/ PipelineIntrospection
    \/ PipelineDependency
    \/ PipelineBlueprint
    \/ PipelineSchema
    \/ PipelineLogic
    \/ PipelineSandbox
    \/ PipelineErrorFixer
    \/ PipelineValidation
    \/ PipelineDataMigration
    \/ PipelineReporting

SpecPipeline == InitPipeline /\ [][NextPipeline]_vars

\* workflow.stream runs the next node as soon as the previous one returned
FairSpecPipeline == SpecPipeline /\ WF_vars(NextPipeline)

\* C24: after a connection failure of the introspection the error is on the
\* list with the introspection phase and nothing is ever done to the sandbox.
C24_ConnectionFailureIsFatal ==
    (\E i \in DOMAIN pl_errors : pl_errors[i].error_type = "connection_error") =>
        /\ \E i \in DOMAIN pl_errors :
              pl_errors[i] = StageError("introspection", "connection_error")
        /\ pl_ops = <<>>

\* C25: a step in which a stage raises an exception appends one error to the
\* list and moves the workflow to a next node.
C25_StageExceptionsAreCaught ==
    [][pl_raised' # pl_raised =>
          /\ Len(pl_errors') = Len(pl_errors) + 1
          /\ pl_pc' # "aborted"]_vars

\* C26: every run reaches END with the reporting stage run exactly once.
C26_AlwaysReports ==
    <>(pl_pc = "END" /\ pl_reports = 1)

\* C31: the final report gives the run the status SUCCESS only if no object
\* was left failed by the last sandbox pass, validation passed and no error
\* was recorded
C31_SuccessMeansClean ==
    pl_overall_status = "success" =>
        /\ ~pl_failures
        /\ pl_validation_passed
        /\ pl_errors = <<>>

(* ================================================================== *)
(* Runs started from several entry points (SpecSessions)               *)
(* ================================================================== *)

\* the stages of a run that execute statements on the sandbox database
\* (settings.db.sandbox_connection_string, the same for every run)
SandboxStages == {"sandbox", "data_migration"}

\* the edges of the workflow graph, with the stages before the sandbox as one
NextStages(stage) ==
    CASE stage = "pre_sandbox" -> {"sandbox"}
      [] stage = "sandbox" -> {"error_fixer", "validation"}
      [] stage = "error_fixer" -> {"sandbox"}
      [] stage = "validation" -> {"data_migration", "reporting"}
      [] stage = "data_migration" -> {"reporting"}
      [] stage = "reporting" -> {"dead"}
      [] OTHER -> {}

\* init_session_state in every session; no command-line run yet
InitSessions ==
    /\ TopoIdle
    /\ FlowIdle
    /\ DdlIdle
    /\ DeployIdle
    /\ MoverIdle
    /\ ValidIdle
    /\ RowIdle
    /\ ResetIdle
    /\ BatchIdle
    /\ OrderIdle
    /\ PipelineIdle
    /\ ConvertIdle
    /\ KeysIdle
    /\ ss_migration_running = [s \in UiSessions |-> FALSE]
    /\ ss_stage = [e \in EntryPoints |-> "none"]
    /\ ss_runs = [e \in EntryPoints |-> 0]

\* what starting and running a workflow leaves alone
SessionsFrame ==
    UNCHANGED <<topoVars, flowVars, ddlVars, deployVars, moverVars, validVars, rowVars, resetVars, batchVars, orderVars, pipelineVars, convertVars, keyVars>>

\* main(): the Start button is offered while this session's flag is off;
\* start_migration_async sets the flag and starts the background thread
SessionStartMigration(s) ==
    /\ ~ss_migration_running[s]
    /\ ss_runs[s] < MaxSessionRuns
    /\ ss_migration_running' = [ss_migration_running EXCEPT ![s] = TRUE]
    /\ ss_stage' = [ss_stage EXCEPT ![s] = "pre_sandbox"]
    /\ ss_runs' = [ss_runs EXCEPT ![s] = @ + 1]
    /\ SessionsFrame

\* main.py run_migration_workflow: a command-line process calls run_migration
CliRunMigrationWorkflow ==
    /\ ss_stage["cli"] = "none"
    /\ ss_runs["cli"] < MaxSessionRuns
    /\ ss_stage' = [ss_stage EXCEPT !["cli"] = "pre_sandbox"]
    /\ ss_runs' = [ss_runs EXCEPT !["cli"] = @ + 1]
    /\ UNCHANGED ss_migration_running
    /\ SessionsFrame

\* workflow.stream / workflow.invoke: the run of one entry point moves to its
\* next node
WorkflowStage(e) ==
    /\ \E next \in NextStages(ss_stage[e]) :
         ss_stage' = [ss_stage EXCEPT ![e] = next]
    /\ UNCHANGED <<ss_migration_running, ss_runs>>
    /\ SessionsFrame

\* main(), on a rerun of the page after this session's thread has ended
SessionThreadCheck(s) ==
    /\ ss_stage[s] = "dead"
    /\ ss_migration_running' = [ss_migration_running EXCEPT ![s] = FALSE]
    /\ ss_stage' = [ss_stage EXCEPT ![s] = "none"]
    /\ UNCHANGED ss_runs
    /\ SessionsFrame

\* the command-line process exits after showing its results
CliExit ==
    /\ ss_stage["cli"] = "dead"
    /\ ss_stage' = [ss_stage EXCEPT !["cli"] = "none"]
    /\ UNCHANGED <<ss_migration_running, ss_runs>>
    /\ SessionsFrame

NextSessions ==
    \/ \E s \in UiSessions : SessionStartMigration(s)
    \/ CliRunMigrationWorkflow
    \/ \E e \in EntryPoints : WorkflowStage(e)
    \/ \E s \in UiSessions : SessionThreadCheck(s)
    \/ CliExit

SpecSessions == InitSessions /\ [][NextSessions]_vars

\* C28: the sandbox database is exclusive to one run in flight: never are two
\* runs, whichever entry points started them, in a sandbox pass or a sandbox
\* data migration at the same time
C28_SandboxExclusive ==
    \A e1 \in EntryPoints, e2 \in EntryPoints :
        (e1 # e2 /\ ss_stage[e1] \in SandboxStages) => ss_stage[e2] \notin SandboxStages
(* ================================================================== *)
(* The per-column transform of a batch (SpecConvert)                   *)
(* ================================================================== *)

\* A Python value. tag is its type; len is what len() gives; x and y are the
\* numbers it carries (an int or bool in x; for a byte buffer the doubles its
\* bytes [9:17) and [17:25) encode, where those bytes exist); chars is the
\* text of a str as tokens; items is the elements of a list, each a str
Value(tag, len, x, y, chars, items) ==
    [tag |-> tag, len |-> len, x |-> x, y |-> y, chars |-> chars, items |-> items]

NoneValue == Value("none", 0, 0, 0, <<>>, <<>>)

BytesValue(tag, len, x, y) == Value(tag, len, x, y, <<>>, <<>>)

StrValue(chars, len) == Value("str", len, 0, 0, chars, <<>>)

ListValue(items) == Value("list", Len(items), 0, 0, <<>>, items)

IntValue(n) == Value("int", 0, n, 0, <<>>, <<>>)

BoolValue(b) == Value("bool", 0, IF b THEN 1 ELSE 0, 0, <<>>, <<>>)

\* f"({x}, {y})": the str holding the PostgreSQL point literal of x and y
PointLiteral(x, y) == Value("point_literal", 0, x, y, <<>>, <<>>)

\* what a call gives: a returned value or an exception
Returned(v) == [raised |-> FALSE, value |-> v]

Raised == [raised |-> TRUE, value |-> NoneValue]

\* len(buffer[a:b])
SliceLen(len, a, b) ==
    LET stop == IF len < b THEN len ELSE b
    IN IF stop > a THEN stop - a ELSE 0

\* str.lower() and str.upper(), token by token
Lower(chars) ==
    [i \in DOMAIN chars |->
        CASE chars[i] = "SET" -> "set"
          [] chars[i] = "NULL" -> "null"
          [] chars[i] = "GEOMETRY" -> "geometry"
          [] chars[i] = "VARCHAR" -> "varchar"
          [] chars[i] = "DATE" -> "date"
          [] chars[i] = "TINYINT" -> "tinyint"
          [] chars[i] = "SMALLINT" -> "smallint"
          [] OTHER -> chars[i]]

Upper(chars) ==
    [i \in DOMAIN chars |->
        CASE chars[i] = "'a'" -> "'A'"
          [] chars[i] = "'b'" -> "'B'"
          [] OTHER -> chars[i]]

\* s.startswith(prefix) and sub in s
StartsWith(chars, prefix) ==
    Len(chars) >= Len(prefix) /\ SubSeq(chars, 1, Len(prefix)) = prefix

Contains(chars, sub) ==
    \E i \in 1..(Len(chars) - Len(sub) + 1) : SubSeq(chars, i, i + Len(sub) - 1) = sub

\* s.split(sep)
RECURSIVE SplitOn(_, _)
SplitOn(chars, sep) ==
    IF \A i \in DOMAIN chars : chars[i] # sep
    THEN <<chars>>
    ELSE LET k == CHOOSE i \in DOMAIN chars :
                     chars[i] = sep /\ \A j \in 1..(i - 1) : chars[j] # sep
         IN <<SubSeq(chars, 1, k - 1)>> \o SplitOn(SubSeq(chars, k + 1, Len(chars)), sep)

\* the body of the try block of convert_wkb_to_point
WkbTryBlock(wkb_bytes) ==
    LET buffer == IF wkb_bytes.tag = "memoryview"
                  THEN [wkb_bytes EXCEPT !.tag = "bytes"]
                  ELSE wkb_bytes
    IN IF buffer.tag \notin {"bytes", "str"} THEN Raised
       ELSE IF buffer.len < 21 THEN Returned(NoneValue)
       ELSE IF buffer.tag # "bytes" \/ SliceLen(buffer.len, 9, 17) # 8 THEN Raised
       ELSE IF SliceLen(buffer.len, 17, 25) # 8 THEN Raised
       ELSE Returned(PointLiteral(buffer.x, buffer.y))

\* convert_wkb_to_point without its try/except
ConvertWkbToPoint_NoTry(wkb_bytes) ==
    IF wkb_bytes.tag = "none" THEN Returned(NoneValue) ELSE WkbTryBlock(wkb_bytes)

\* convert_wkb_to_point
ConvertWkbToPoint(wkb_bytes) ==
    IF wkb_bytes.tag = "none"
    THEN Returned(NoneValue)
    ELSE IF WkbTryBlock(wkb_bytes).raised
         THEN Returned(NoneValue)
         ELSE WkbTryBlock(wkb_bytes)

\* lambda v: bool(v) if v is not None else None
BoolConverter(v) ==
    IF v.tag = "none" THEN Returned(NoneValue)
    ELSE Returned(BoolValue(CASE v.tag \in {"int", "bool"} -> v.x # 0
                              [] v.tag = "point_literal" -> TRUE
                              [] OTHER -> v.len # 0))

\* lambda v: bytes(v) if v is not None else None
BytesConverter(v) ==
    CASE v.tag = "none" -> Returned(NoneValue)
      [] v.tag \in {"bytes", "memoryview"} -> Returned([v EXCEPT !.tag = "bytes"])
      [] v.tag = "int" -> Returned(BytesValue("bytes", v.x, 0, 0))
      [] OTHER -> Raised

\* lambda v: v.split(",") if v else []
SetConverter(v) ==
    CASE v.tag = "none" -> Returned(ListValue(<<>>))
      [] v.tag = "str" -> IF v.len = 0
                          THEN Returned(ListValue(<<>>))
                          ELSE Returned(ListValue(SplitOn(v.chars, ",")))
      [] v.tag \in {"int", "bool"} -> IF v.x = 0 THEN Returned(ListValue(<<>>)) ELSE Raised
      [] v.tag \in {"bytes", "memoryview"} ->
             IF v.len = 0 THEN Returned(ListValue(<<>>)) ELSE Raised
      [] OTHER -> Raised

\* the call of a converter by its name
ApplyConverter(converter, v) ==
    CASE converter = "convert_wkb_to_point" -> ConvertWkbToPoint(v)
      [] converter = "bool" -> BoolConverter(v)
      [] converter = "bytes" -> BytesConverter(v)
      [] converter = "split" -> SetConverter(v)
      [] OTHER -> Returned(v)

\* TYPE_CONVERTERS: the converter under the key col_type, "absent" without
\* such a key
TypeConverters(col_type) ==
    CASE col_type \in {<<"tinyint", "(", "1", ")">>, <<"bit", "(", "1", ")">>} -> "bool"
      [] col_type \in {<<"blob">>, <<"tinyblob">>, <<"mediumblob">>, <<"longblob">>} -> "bytes"
      [] col_type = <<"set">> -> "split"
      [] col_type \in {<<"geometry">>, <<"point">>, <<"null">>} -> "convert_wkb_to_point"
      [] OTHER -> "absent"

\* SPECIAL_COLUMN_HANDLERS, keyed by table.column
SpecialColumnHandlers(table_name, col) ==
    CASE table_name = "address" /\ col = "location" -> "convert_wkb_to_point"
      [] table_name = "staff" /\ col = "picture" -> "bytes"
      [] OTHER -> "absent"

\* _cache_column_types and the choice of the converter in _insert_batch: the
\* special handler of the column, else the entry of its lowered type string
AgentConverter(col) ==
    IF SpecialColumnHandlers(col.table, col.name) # "absent"
    THEN SpecialColumnHandlers(col.table, col.name)
    ELSE TypeConverters(Lower(col.type))

\* DataMigrator.transform_value
TransformValue(v, mysql_type) ==
    LET mysql_type_upper == Upper(mysql_type)
    IN IF v.tag = "none" THEN Returned(NoneValue)
       ELSE IF /\ \/ Contains(mysql_type_upper, <<"DATE">>)
                  \/ Contains(mysql_type_upper, <<"TIMESTAMP">>)
               /\ v.tag = "str"
               /\ StartsWith(v.chars, <<"0000-00-00">>)
            THEN Returned(NoneValue)
       ELSE IF Contains(mysql_type_upper, <<"TINYINT", "(", "1", ")">>)
            THEN BoolConverter(v)
       ELSE IF \/ Contains(mysql_type_upper, <<"BLOB">>)
               \/ Contains(mysql_type_upper, <<"BINARY">>)
            THEN Returned(v)
       ELSE IF StartsWith(mysql_type_upper, <<"BIT">>)
            THEN IF v.tag = "bytes" THEN Returned(IntValue(v.x)) ELSE Returned(v)
       ELSE IF StartsWith(mysql_type_upper, <<"SET">>)
            THEN Returned(v)
       ELSE Returned(v)

\* a column of a source table, its type as str(col["type"]) gives it
Column(table_name, col, type) == [table |-> table_name, name |-> col, type |-> type]

\* the columns a batch is drawn from
ConvertColumns ==
    { Column("address", "location", <<"NULL">>),
      Column("address", "location", <<"VARCHAR", "(", "50", ")">>),
      Column("store", "position", <<"GEOMETRY">>),
      Column("film", "special_features", <<"SET", "(", "'a'", ",", "'b'", ")">>),
      Column("payment", "payment_date", <<"DATE">>),
      Column("staff", "active", <<"TINYINT", "(", "1", ")">>),
      Column("film", "length", <<"SMALLINT">>) }

\* the byte buffers of a spatial column: undersized, too short for Y, and
\* long enough for both doubles
WkbBuffers ==
    { BytesValue(tag, shape[1], shape[2], shape[3]) :
        tag \in {"bytes", "memoryview"},
        shape \in {<<20, 0, 0>>, <<21, 1, 0>>, <<24, 2, 0>>,
                   <<25, 1, 2>>, <<25, 2, 1>>, <<29, 1, 1>>} }

\* the values the source can hold in a column
RawValues(col) ==
    {NoneValue} \cup
    CASE col.type \in {<<"NULL">>, <<"GEOMETRY">>} -> WkbBuffers
      [] col.type[1] = "VARCHAR" -> {StrValue(<<"text">>, 30), StrValue(<<"text">>, 4)}
      [] col.type[1] = "SET" -> {StrValue(<<>>, 0), StrValue(<<"a">>, 1),
                                 StrValue(<<"a", ",", "b">>, 3)}
      [] col.type[1] = "DATE" -> {StrValue(<<"0000-00-00">>, 10),
                                  StrValue(<<"2006-02-15">>, 10)}
      [] OTHER -> {IntValue(0), IntValue(1)}

\* a batch has been fetched from the source by one of the two movers
InitConvert ==
    /\ TopoIdle
    /\ FlowIdle
    /\ DdlIdle
    /\ DeployIdle
    /\ MoverIdle
    /\ ValidIdle
    /\ RowIdle
    /\ ResetIdle
    /\ BatchIdle
    /\ OrderIdle
    /\ PipelineIdle
    /\ SessionsIdle
    /\ KeysIdle
    /\ cv_mover \in {"DataMigrationAgent", "DataMigrator"}
    /\ cv_pc = "fetched"
    /\ cv_column \in ConvertColumns
    /\ \E n \in 1..MaxConvertRows : cv_rows \in [1..n -> RawValues(cv_column)]
    /\ cv_params = <<>>

\* what the transform of a batch leaves alone
ConvertFrame ==
    UNCHANGED <<topoVars, flowVars, ddlVars, deployVars, moverVars, validVars, rowVars, resetVars, batchVars, orderVars, pipelineVars, sessionVars, keyVars>>

\* the INSERT of a batch whose values are the given call results: a raised
\* exception leaves the batch uninserted
InsertTransformed(results) ==
    IF \E i \in DOMAIN results : results[i].raised
    THEN cv_pc' = "failed" /\ cv_params' = <<>>
    ELSE /\ cv_pc' = "inserted"
         /\ cv_params' = [i \in DOMAIN results |-> results[i].value]

\* DataMigrationAgent._insert_batch
InsertBatch ==
    /\ cv_mover = "DataMigrationAgent"
    /\ cv_pc = "fetched"
    /\ InsertTransformed([i \in DOMAIN cv_rows |->
                            ApplyConverter(AgentConverter(cv_column), cv_rows[i])])
    /\ UNCHANGED <<cv_mover, cv_column, cv_rows>>
    /\ ConvertFrame

\* DataMigrator.migrate_table, one batch: transform_row on every row, then
\* bulk_insert
TransformAndBulkInsert ==
    /\ cv_mover = "DataMigrator"
    /\ cv_pc = "fetched"
    /\ InsertTransformed([i \in DOMAIN cv_rows |->
                            TransformValue(cv_rows[i], cv_column.type)])
    /\ UNCHANGED <<cv_mover, cv_column, cv_rows>>
    /\ ConvertFrame

NextConvert ==
    \/ InsertBatch
    \/ TransformAndBulkInsert

SpecConvert == InitConvert /\ [][NextConvert]_vars

\* the batch went through DataMigrationAgent._insert_batch and its column is
\* one whose values convert_wkb_to_point decodes
SpatialBatchDone ==
    /\ cv_mover = "DataMigrationAgent"
    /\ cv_pc \in {"inserted", "failed"}
    /\ AgentConverter(cv_column) = "convert_wkb_to_point"

\* a value that is null, shorter than 21 bytes, or otherwise not a byte
\* buffer holding both doubles
Undecodable(v) ==
    \/ v.tag = "none"
    \/ v.tag \notin {"bytes", "memoryview"}
    \/ v.len < 21
    \/ v.len < 25

\* C29: decoding a spatial value never raises, so the batch is inserted, and
\* every value that is null, shorter than 21 bytes or otherwise malformed is
\* inserted as null
C29_SpatialDecodeNeverRaises ==
    SpatialBatchDone =>
        /\ cv_pc = "inserted"
        /\ \A i \in DOMAIN cv_rows :
              /\ ~ConvertWkbToPoint(cv_rows[i]).raised
              /\ Undecodable(cv_rows[i]) => cv_params[i].tag = "none"

\* a batch holding an undersized buffer and one too short for Y went in, both
\* as null
C29_Witness ==
    /\ SpatialBatchDone
    /\ cv_pc = "inserted"
    /\ \E i \in DOMAIN cv_rows, j \in DOMAIN cv_rows :
          /\ cv_rows[i].tag \in {"bytes", "memoryview"} /\ cv_rows[i].len < 21
          /\ cv_rows[j].tag \in {"bytes", "memoryview"} /\ cv_rows[j].len \in 21..24
          /\ cv_params[i].tag = "none"
          /\ cv_params[j].tag = "none"

\* the members of a SET value given as a comma-separated string
Members(chars) == IF chars = <<>> THEN <<>> ELSE SplitOn(chars, ",")

\* C30: every non-null value of a SET column, a comma-separated string, is
\* inserted as the array of its members
C30_SetValuesBecomeArrays ==
    (cv_pc = "inserted" /\ cv_column.type[1] = "SET") =>
        \A i \in DOMAIN cv_rows :
            cv_rows[i].tag = "str" =>
                /\ cv_params[i].tag = "list"
                /\ cv_params[i].items = Members(cv_rows[i].chars)
(* ================================================================== *)
(* API key rotation and LLM calls with retry (SpecKeys)                *)
(* ================================================================== *)
\* APIKeyManager._load_keys: GROQ_API_KEY, then GROQ_API_KEY_1..9; nothing
\* keeps two variables from holding the same key
KeyLists ==
    {<<"key_a">>, <<"key_a", "key_b">>, <<"key_a", "key_b", "key_c">>,
     <<"key_a", "key_a", "key_b">>}

\* every configured key is in failed_keys
AllKeysFailed == \A k \in DOMAIN api_keys : api_keys[k] \in failed_keys

\* APIKeyManager.rotate_key, the for loop: advance, return True at a key that
\* is not failed, stop once the index is back at the original one
RECURSIVE RotateLoop(_, _, _, _, _)
RotateLoop(ks, failed, idx, original_index, left) ==
    IF left = 0 THEN [current_index |-> idx, result |-> FALSE]
    ELSE LET nxt == (idx + 1) % Len(ks)
         IN IF ks[nxt + 1] \notin failed
            THEN [current_index |-> nxt, result |-> TRUE]
            ELSE IF nxt = original_index
                 THEN [current_index |-> nxt, result |-> FALSE]
                 ELSE RotateLoop(ks, failed, nxt, original_index, left - 1)

\* a rotation that moves to the next key in line whatever has failed
RotateKey_NextInLine(ks, idx, failed) ==
    [current_index |-> (idx + 1) % Len(ks),
     failed_keys |-> failed \cup {ks[idx + 1]},
     result |-> Len(ks) > 1]

\* APIKeyManager.rotate_key: the current key is marked failed first
RotateKey(ks, idx, failed) ==
    LET marked == failed \cup {ks[idx + 1]}
        found == RotateLoop(ks, marked, idx, idx, Len(ks))
    IN [current_index |-> found.current_index, failed_keys |-> marked,
        result |-> found.result]

\* the max_retries argument of invoke_with_retry: None, or a number
RetryArgs ==
    {[given |-> FALSE, value |-> 0]} \cup
    {[given |-> TRUE, value |-> n] : n \in 0..MaxRetriesArg}

\* max_retries = max_retries or self.llm_config.max_retries
EffectiveMaxRetries(arg) ==
    IF ~arg.given \/ arg.value = 0 THEN LlmMaxRetries ELSE arg.value

\* an attempt that is followed by a rotation does not count
NextAttempt_RotationFree(attempt, rotated) ==
    IF rotated THEN attempt ELSE attempt + 1

\* for attempt in range(max_retries): `continue` after a rotation moves to the
\* next attempt like any other end of the loop body
NextAttempt(attempt, rotated) == attempt + 1

\* one agent with the manager just loaded from the environment
InitKeys ==
    /\ TopoIdle
    /\ FlowIdle
    /\ DdlIdle
    /\ DeployIdle
    /\ MoverIdle
    /\ ValidIdle
    /\ RowIdle
    /\ ResetIdle
    /\ BatchIdle
    /\ OrderIdle
    /\ PipelineIdle
    /\ SessionsIdle
    /\ ConvertIdle
    /\ api_keys \in KeyLists
    /\ current_index = 0
    /\ failed_keys = {}
    /\ km_returned = "none"
    /\ llm_key = "none"
    /\ iw_pc = "idle"
    /\ max_retries = 0
    /\ iw_attempt = 0
    /\ iw_calls = 0
    /\ iw_rotations = 0
    /\ last_error = "none"
    /\ iw_runs = 0

KeysFrame ==
    /\ UNCHANGED api_keys
    /\ UNCHANGED <<topoVars, flowVars, ddlVars, deployVars, moverVars, validVars, rowVars, resetVars, batchVars, orderVars, pipelineVars, sessionVars, convertVars>>

\* BaseAgent.invoke_with_retry is entered
InvokeWithRetry ==
    /\ iw_pc \in {"idle", "returned", "raised"}
    /\ iw_runs < MaxInvocations
    /\ \E arg \in RetryArgs : max_retries' = EffectiveMaxRetries(arg)
    /\ iw_pc' = "loop"
    /\ iw_attempt' = 0
    /\ iw_calls' = 0
    /\ iw_rotations' = 0
    /\ last_error' = "none"
    /\ iw_runs' = iw_runs + 1
    /\ UNCHANGED <<current_index, failed_keys, km_returned, llm_key>>
    /\ KeysFrame

\* one pass of the loop body: self.invoke(messages), which creates the LLM
\* with the current key if there is none, and the except clause
Attempt ==
    /\ iw_pc = "loop" /\ iw_attempt < max_retries
    /\ iw_calls' = iw_calls + 1
    /\ \E outcome \in {"response", "rate_limit", "error"} :
         LET created == IF llm_key = "none" THEN api_keys[current_index + 1]
                        ELSE llm_key
         IN IF outcome = "response"
            THEN /\ iw_pc' = "returned"
                 /\ llm_key' = created
                 /\ UNCHANGED <<current_index, failed_keys, km_returned,
                                iw_attempt, iw_rotations, last_error>>
            ELSE IF outcome = "rate_limit"
            THEN LET rotation == RotateKey(api_keys, current_index, failed_keys)
                 IN /\ last_error' = "rate_limit"
                    /\ current_index' = rotation.current_index
                    /\ failed_keys' = rotation.failed_keys
                    /\ km_returned' = IF rotation.result THEN "true" ELSE "false"
                    /\ IF rotation.result
                       THEN /\ llm_key' = api_keys[rotation.current_index + 1]
                            /\ iw_rotations' = iw_rotations + 1
                            /\ iw_attempt' = NextAttempt(iw_attempt, TRUE)
                            /\ iw_pc' = "loop"
                       ELSE /\ llm_key' = created
                            /\ iw_pc' = "raised"
                            /\ UNCHANGED <<iw_rotations, iw_attempt>>
            ELSE /\ last_error' = "error"
                 /\ llm_key' = created
                 /\ iw_attempt' = NextAttempt(iw_attempt, FALSE)
                 /\ UNCHANGED <<iw_pc, current_index, failed_keys, km_returned,
                                iw_rotations>>
    /\ UNCHANGED <<max_retries, iw_runs>>
    /\ KeysFrame

\* the loop has run out: raise last_error or Exception("Max retries exceeded")
RaiseLastError ==
    /\ iw_pc = "loop" /\ iw_attempt >= max_retries
    /\ iw_pc' = "raised"
    /\ last_error' = IF last_error = "none" THEN "max_retries_exceeded"
                     ELSE last_error
    /\ UNCHANGED <<current_index, failed_keys, km_returned, llm_key,
                   max_retries, iw_attempt, iw_calls, iw_rotations, iw_runs>>
    /\ KeysFrame

\* reset_api_key_manager / APIKeyManager.reset_failed_keys, between two calls
ResetFailedKeys ==
    /\ iw_pc \in {"returned", "raised"}
    /\ failed_keys # {}
    /\ failed_keys' = {}
    /\ current_index' = 0
    /\ km_returned' = "none"
    /\ UNCHANGED <<llm_key, iw_pc, max_retries, iw_attempt, iw_calls,
                   iw_rotations, last_error, iw_runs>>
    /\ KeysFrame

NextKeys == InvokeWithRetry \/ Attempt \/ RaiseLastError \/ ResetFailedKeys

SpecKeys == InitKeys /\ [][NextKeys]_vars

\* what holds after rotate_key has returned and until the next reset
RotateKeyPostcondition ==
    /\ km_returned = "true" => api_keys[current_index + 1] \notin failed_keys
    /\ km_returned # "none" => (km_returned = "false" <=> AllKeysFailed)

\* a step either resets the manager or keeps every failed key failed and
\* moves the index only to a key that is not failed
FailedKeyStaysOut ==
    \/ failed_keys' = {} /\ current_index' = 0
    \/ /\ failed_keys \subseteq failed_keys'
       /\ current_index' # current_index =>
             api_keys[current_index' + 1] \notin failed_keys'

\* C37: rotate_key returns True only if the current key afterwards is one that
\* is not marked failed, it returns False exactly when every configured key is
\* marked failed, and a key once marked failed is never selected again until
\* reset_failed_keys is called.
C37_RotateKeyContract ==
    []RotateKeyPostcondition /\ [][FailedKeyStaysOut]_vars

\* a rotation has passed over a failed key and stopped at the one left
C37_Witness ==
    /\ km_returned = "true"
    /\ Len(api_keys) = 3 /\ api_keys[1] = api_keys[2]
    /\ current_index = 2
    /\ failed_keys = {api_keys[1]}

\* the bound on the calls of one invocation, and what it is left with when
\* it has raised
RetryBounded ==
    /\ iw_calls <= max_retries
    /\ iw_pc = "raised" => last_error \in {"rate_limit", "error"}

\* every configured key is in failed_keys after the step
AllKeysFailedNext == \A k \in DOMAIN api_keys : api_keys[k] \in failed_keys'

\* the invocation raises after max_retries calls or on a rate-limited call
\* that leaves every key failed, and such a call ends it at once
RaisesOnceExhausted ==
    /\ (iw_pc = "loop" /\ iw_pc' = "raised") =>
          \/ iw_calls' = max_retries
          \/ last_error' = "rate_limit" /\ AllKeysFailedNext
    /\ (/\ iw_pc = "loop"
        /\ iw_calls' = iw_calls + 1
        /\ last_error' = "rate_limit"
        /\ AllKeysFailedNext) =>
          iw_pc' = "raised"

\* C38: invoke_with_retry makes at most max_retries calls to the model per
\* invocation and then raises the last error, also when every attempt is
\* rate-limited and the rotation succeeds each time, and it raises at once
\* when all keys are exhausted.
C38_RetryIsBounded ==
    []RetryBounded /\ [][RaisesOnceExhausted]_vars

\* every attempt was rate-limited, every rotation succeeded, and the
\* invocation raised after max_retries calls with a key still left
C38_Witness ==
    /\ iw_pc = "raised"
    /\ max_retries >= 2
    /\ iw_calls = max_retries
    /\ iw_rotations = iw_calls
    /\ last_error = "rate_limit"
    /\ ~AllKeysFailed

====
